---- MODULE Spec2Model ----
(***************************************************************************)
(* State-machine model of the text quality analyzer back end.              *)
(*                                                                         *)
(*  Part I   FailureTracker, HybridSemanticAnalyzer and the stream client  *)
(*           SemanticRealtimeAnalyzer (analysis/semantic_function_hybrid,  *)
(*           analysis/semantic_function_realtime, the chunk functions of   *)
(*           analysis/semantic_function).                                  *)
(*  Part II  AnalysisOrchestrator and SessionStore (api/orchestrator,      *)
(*           services/session_store).                                      *)
(*                                                                         *)
(* Time is counted in minutes.  Strings that the code compares by          *)
(* substring (error messages) are kept as sequences of phrases: a message  *)
(* contains a phrase iff the phrase is one of its parts.                   *)
(***************************************************************************)
EXTENDS Integers, Sequences, FiniteSets, TLC

VARIABLES
    now,                \* wall clock, datetime.now(), in minutes
    failure_tracker,    \* HybridSemanticAnalyzer.failure_tracker
    consecutive_failures, \* history: record_failure calls since the last
                        \* record_success or reset of the counters
    prefer_realtime,    \* HybridSemanticAnalyzer.prefer_realtime
    hyb_session_active, \* HybridSemanticAnalyzer._realtime_session_active
    current_topic,      \* HybridSemanticAnalyzer._current_topic
    rt,                 \* HybridSemanticAnalyzer.realtime_analyzer and its connection
    rest_available,     \* OpenAIService.is_available
    call,               \* the analyze_chunk call in flight
    batch,              \* the analyze_batch call in flight
    store,              \* SessionStore content of the session id
    procs,              \* orchestrator requests in flight
    sem,                \* the analyze_semantic_function_batch call in flight
    paragraph_cache,    \* EmbeddingService.paragraph_cache
    workers,            \* threads inside LRUCache.get or LRUCache.put
    recency,            \* history: cached keys by their last access
    embedding,          \* _embedding_service_instance and app.state.embedding_service
    kv,                 \* SessionStore: redis_client, the Redis key, local_sessions
    reply,              \* what the last call of a service function returned
    stream              \* SemanticRealtimeAnalyzer used on its own: the
                        \* analyze_batch call in flight and the inbound events

vars == <<now, failure_tracker, consecutive_failures, prefer_realtime, hyb_session_active, current_topic,
          rt, rest_available, call, batch, store, procs, sem, paragraph_cache,
          workers, recency, embedding, kv, reply, stream>>

\* The embedding service factory, the session store back ends and the value
\* returned last
backendVars == <<embedding, kv, reply, stream>>

\* State of the services below the analyzers and the orchestrator
serviceVars == <<sem, paragraph_cache, workers, recency, backendVars>>

\* State of the two analyzers
analyzerVars == <<now, failure_tracker, consecutive_failures, prefer_realtime,
                  hyb_session_active, current_topic, rt, rest_available, call,
                  batch>>

hybridVars == <<analyzerVars, serviceVars>>

\* Everything but the stored session and the back ends
upperVars == <<analyzerVars, procs, sem, paragraph_cache, workers, recency,
              stream>>

sessionVars == <<store, procs, serviceVars>>

Null == "null"

(***************************************************************************)
(* Session store content and orchestrator requests                         *)
(***************************************************************************)
\* No entry under the session id (get_analysis returns None)
NoSession == [exists |-> FALSE, df |-> <<>>, topic |-> Null]

\* The orchestrator coroutines that may be in flight together
ProcIds == {1, 2}

NoRequest ==
    [op |-> "none", id1 |-> 0, id2 |-> 0, text |-> <<>>, order |-> <<>>,
     topic |-> Null]

\* All three analysis tasks delivered their columns
AllOk == [readability |-> "ok", signal |-> "ok", semantic |-> "ok"]

\* overlapped: another request was between its read and its save while this
\* one was (history, for stating properties)
IdleProc ==
    [pc |-> "idle", req |-> NoRequest, read |-> NoSession, o |-> AllOk,
     outcome |-> "none", overlapped |-> FALSE]

(***************************************************************************)
(* Bounds of the model                                                     *)
(***************************************************************************)
MaxTime == 7          \* the clock stops here
MaxFailures == 4      \* cap of realtime_failures
MaxSuccesses == 7     \* cap of realtime_successes
MaxChunks == 12       \* longest chunk list handed to analyze_batch
MaxKeys == 3          \* distinct paragraph hashes
MaxCapacity == 2      \* largest cache_size

(***************************************************************************)
(* Program constants                                                       *)
(***************************************************************************)
failure_threshold == 3
recovery_timeout == 5
SuccessStreak == 5
AdaptiveMinChunks == 10
RealtimeHeadMax == 5
RealtimeHeadDivisor == 4
API_MAX_TOKENS_REQUEST_LIMIT == 4000
PROMPT_OVERHEAD_TOKENS == 1000
TOKENS_PER_PARAGRAPH_CONTENT_ESTIMATE == 200
TOKENS_PER_PARAGRAPH_RESPONSE_ESTIMATE == 30
ChunkSizeCap == 50

Topics == {"t1", "t2"}
ChunkIds == 1..2

Min(a, b) == IF a < b THEN a ELSE b
Max(a, b) == IF a > b THEN a ELSE b

(***************************************************************************)
(* FailureTracker                                                          *)
(***************************************************************************)
NoTime == -1

FailureTrackerInit ==
    [realtime_failures |-> 0, realtime_successes |-> 0, last_failure_time |-> NoTime]

\* record_failure counting the failure twice
record_failure_twice(tr, t) ==
    [tr EXCEPT !.realtime_failures = tr.realtime_failures + 2,
               !.last_failure_time = t]

record_failure(tr, t) ==
    [tr EXCEPT !.realtime_failures = tr.realtime_failures + 1,
               !.last_failure_time = t]

record_success(tr) ==
    LET s == tr.realtime_successes + 1
    IN  [tr EXCEPT !.realtime_successes = s,
                   !.realtime_failures =
                       IF s > SuccessStreak
                       THEN Max(0, tr.realtime_failures - 1)
                       ELSE tr.realtime_failures]

\* should_use_realtime comparing with > instead of >=
should_use_realtime_late(tr, t) ==
    IF tr.realtime_failures > failure_threshold
    THEN IF tr.last_failure_time # NoTime /\ t - tr.last_failure_time > recovery_timeout
         THEN [ret |-> TRUE,
               tr  |-> [tr EXCEPT !.realtime_failures = 0, !.realtime_successes = 0]]
         ELSE [ret |-> FALSE, tr |-> tr]
    ELSE [ret |-> TRUE, tr |-> tr]

\* The value returned by should_use_realtime and the tracker it leaves behind.
should_use_realtime(tr, t) ==
    IF tr.realtime_failures >= failure_threshold
    THEN IF tr.last_failure_time # NoTime /\ t - tr.last_failure_time > recovery_timeout
         THEN [ret |-> TRUE,
               tr  |-> [tr EXCEPT !.realtime_failures = 0, !.realtime_successes = 0]]
         ELSE [ret |-> FALSE, tr |-> tr]
    ELSE [ret |-> TRUE, tr |-> tr]

\* History of the tracker: what the step did to it
Observe ==
    consecutive_failures' =
        IF failure_tracker' = failure_tracker
        THEN consecutive_failures
        ELSE IF failure_tracker'.realtime_failures = failure_tracker.realtime_failures + 1
             THEN consecutive_failures + 1
             ELSE 0

(***************************************************************************)
(* Error messages.  str(error) is the concatenation of the parts.          *)
(***************************************************************************)
FALLBACK_ERRORS ==
    {"Conversation already has an active response",
     "WebSocket connection closed",
     "Session not initialized",
     "Response timeout",
     "Invalid session state"}

\* RuntimeError raised by SemanticRealtimeAnalyzer.analyze_chunk when the
\* socket is missing or the session is not active ("WebSocket не подключен").
MsgNotConnected == <<"WebSocket ne podklyuchen">>

\* str() of the ConnectionClosed exception raised by websocket.send
MsgSendOnClosed == <<"no close frame received or sent">>

\* error.message of an inbound error event
ServerErrorMessages ==
    {"Conversation already has an active response", "Rate limit reached"}

\* Exception raised by analyze_chunk for a stream result that carries an error
\* ("Realtime API вернул ошибку: " + semantic_error)
MsgResultError(semantic_error) == <<"Realtime API vernul oshibku: ", semantic_error>>

_should_fallback(error) ==
    \E err \in FALLBACK_ERRORS : \E i \in DOMAIN error : error[i] = err

(***************************************************************************)
(* _parse_single_chunk_response, by the kind of the response text          *)
(***************************************************************************)
TextKinds == {"valid", "garbage", "empty"}

ParseKind(kind) == IF kind = "valid" THEN "label" ELSE "parsing_error"

\* "error" in semantic_function
ContainsError(sf) == sf \in {"parsing_error", "error_timeout", "error_api_call"}

SemanticErrorOf(sf) ==
    CASE sf = "parsing_error" -> "Failed to parse response"
      [] sf = "error_timeout" -> "Response timeout"
      [] OTHER -> "Unknown"

(***************************************************************************)
(* pending_requests: a dict, kept in insertion order                       *)
(***************************************************************************)
HasKey(p, id) == \E i \in DOMAIN p : p[i].chunk_id = id

KeyIndex(p, id) == CHOOSE i \in DOMAIN p : p[i].chunk_id = id

\* pending_requests[id] = a new future
DictSet(p, id) ==
    IF HasKey(p, id)
    THEN [p EXCEPT ![KeyIndex(p, id)] = [chunk_id |-> id, done |-> FALSE]]
    ELSE Append(p, [chunk_id |-> id, done |-> FALSE])

\* pending_requests.pop(id, None)
DictPop(p, id) ==
    IF HasKey(p, id)
    THEN LET k == KeyIndex(p, id)
         IN  SubSeq(p, 1, k - 1) \o SubSeq(p, k + 1, Len(p))
    ELSE p

(***************************************************************************)
(* SemanticRealtimeAnalyzer                                                *)
(***************************************************************************)
NoAnalyzer ==
    [exists |-> FALSE, websocket |-> FALSE, session_active |-> FALSE,
     pending_requests |-> <<>>, conn_open |-> FALSE, handler_alive |-> FALSE,
     topic |-> Null]

\* SemanticRealtimeAnalyzer(api_key)
NewAnalyzer == [NoAnalyzer EXCEPT !.exists = TRUE]

\* The same with the instructions of the session built for a fixed topic
ConnectedAnalyzerFixedTopic(topic) ==
    [exists |-> TRUE, websocket |-> TRUE, session_active |-> TRUE,
     pending_requests |-> <<>>, conn_open |-> TRUE, handler_alive |-> TRUE,
     topic |-> "t1"]

\* connect() followed by initialize_session(config), both succeeding
ConnectedAnalyzer(topic) ==
    [NewAnalyzer EXCEPT !.websocket = TRUE, !.session_active = TRUE,
                        !.conn_open = TRUE, !.handler_alive = TRUE,
                        !.topic = topic]

\* connect() succeeded and the session.update send failed
HalfConnectedAnalyzer ==
    [NewAnalyzer EXCEPT !.websocket = TRUE, !.session_active = TRUE]

\* SemanticRealtimeAnalyzer.close()
rt_close(a) ==
    IF a.websocket
    THEN [a EXCEPT !.websocket = FALSE, !.session_active = FALSE,
                   !.conn_open = FALSE, !.handler_alive = FALSE]
    ELSE a

(***************************************************************************)
(* The batch (REST) channel: analyze_batch_chunks_semantic                 *)
(***************************************************************************)
\* What analyze_single_chunk_semantic can return as semantic_function
RestOutcomes == {"label", "error_api_call", "parsing_error"}

\* chunks: the chunk ids; outcomes[i]: what analyze_single_chunk_semantic
\* returns for chunks[i].  The function catches every exception of a chunk
\* and returns one entry per chunk, in order.
analyze_batch_chunks_semantic(chunks, available, outcomes) ==
    IF chunks = <<>>
    THEN <<>>
    ELSE IF ~available
         THEN [i \in DOMAIN chunks |->
                  [chunk_id |-> chunks[i], semantic_function |-> "error_api_call"]]
         ELSE [i \in DOMAIN chunks |->
                  [chunk_id |-> chunks[i], semantic_function |-> outcomes[i]]]

(***************************************************************************)
(* HybridSemanticAnalyzer.analyze_chunk                                    *)
(***************************************************************************)
NoResult == [chunk_id |-> 0, semantic_function |-> Null, api_method |-> Null]

IdleCall ==
    [pc |-> "idle", caller |-> "none", chunk_id |-> 0, topic |-> Null,
     force |-> "none", use_realtime |-> FALSE,
     fut |-> "none", res_sf |-> Null, error |-> <<>>, stream_error |-> "none",
     result |-> NoResult, outcome |-> "none",
     failures_recorded |-> 0, successes_recorded |-> 0,
     rest_requests |-> 0, rest_failed |-> FALSE, stream_sent |-> FALSE,
     tripped |-> FALSE, reopened |-> FALSE, failures_before |-> 0,
     timed_out |-> FALSE]

ForceMethods == {"none", "realtime", "rest"}

\* Lines 137-141: the channel decision.  should_use_realtime is evaluated
\* only without force_method and with prefer_realtime set.
Decide(force, prefer, tr, t) ==
    IF force # "none"
    THEN [ret |-> force = "realtime", tr |-> tr]
    ELSE IF prefer THEN should_use_realtime(tr, t) ELSE [ret |-> FALSE, tr |-> tr]

\* Room for one more recorded outcome of a stream attempt
TrackerHasRoom(tr) ==
    tr.realtime_failures < MaxFailures /\ tr.realtime_successes < MaxSuccesses

\* threshold failures in a row, the last of them within the recovery timeout
Tripped ==
    /\ consecutive_failures >= failure_threshold
    /\ failure_tracker.last_failure_time # NoTime
    /\ now - failure_tracker.last_failure_time <= recovery_timeout

StartCall(caller, id, topic, force) ==
    LET d == Decide(force, prefer_realtime, failure_tracker, now)
    IN  /\ call.pc = "idle"
        /\ d.ret => TrackerHasRoom(d.tr)
        /\ failure_tracker' = d.tr
        /\ call' = [IdleCall EXCEPT !.pc = IF d.ret THEN "ensure" ELSE "rest",
                                    !.caller = caller, !.chunk_id = id,
                                    !.topic = topic, !.force = force,
                                    !.use_realtime = d.ret,
                                    !.tripped = Tripped,
                                    !.reopened = d.tr # failure_tracker,
                                    !.failures_before = d.tr.realtime_failures]

\* The except handler falling back whatever the error is
ExceptHandler_swallow(c, err, kind) ==
    [c EXCEPT !.error = err, !.stream_error = kind,
              !.failures_recorded = c.failures_recorded + 1,
              !.pc = "rest"]

\* Lines 160-169: the except handler of the stream attempt
ExceptHandler(c, err, kind) ==
    [c EXCEPT !.error = err, !.stream_error = kind,
              !.failures_recorded = c.failures_recorded + 1,
              !.pc = IF _should_fallback(err) THEN "rest" ELSE "done",
              !.outcome = IF _should_fallback(err) THEN "none" ELSE "raised"]

\* Lines 150-158: the check of the stream result
CheckResult(c, sf) ==
    IF sf # Null /\ ~ContainsError(sf)
    THEN [c EXCEPT !.pc = "done", !.outcome = "returned",
                   !.successes_recorded = c.successes_recorded + 1,
                   !.res_sf = sf,
                   !.result = [chunk_id |-> c.chunk_id, semantic_function |-> sf,
                               api_method |-> "realtime"]]
    ELSE ExceptHandler([c EXCEPT !.res_sf = sf], MsgResultError(SemanticErrorOf(sf)),
                       IF sf = "error_timeout" THEN "timeout" ELSE "bad_result")

\* _ensure_realtime_session, lines 83-111
EnsureSession ==
    /\ call.pc = "ensure"
    /\ LET changed == current_topic # call.topic
           closed == IF changed /\ rt.exists THEN rt_close(rt) ELSE rt
           active == IF changed /\ rt.exists THEN FALSE ELSE hyb_session_active
       IN  IF active
           THEN /\ rt' = closed
                /\ hyb_session_active' = active
                /\ call' = [call EXCEPT !.pc = "send"]
                /\ UNCHANGED current_topic
           ELSE \E ok \in {"ok", "connect_failed", "init_failed"} :
                   IF ok = "ok"
                   THEN /\ rt' = ConnectedAnalyzer(call.topic)
                        /\ hyb_session_active' = TRUE
                        /\ current_topic' = call.topic
                        /\ call' = [call EXCEPT !.pc = "send"]
                   ELSE /\ rt' = IF ok = "connect_failed" THEN NewAnalyzer
                                 ELSE HalfConnectedAnalyzer
                        /\ hyb_session_active' = FALSE
                        /\ UNCHANGED current_topic
                        /\ call' = [call EXCEPT !.pc = "rest",
                                                !.stream_error = "no_session"]
    /\ UNCHANGED <<now, failure_tracker, prefer_realtime, rest_available, batch>>
    /\ UNCHANGED sessionVars
    /\ Observe

\* SemanticRealtimeAnalyzer.analyze_chunk up to the wait, lines 124-159
SendRequest ==
    /\ call.pc = "send"
    /\ IF ~rt.websocket \/ ~rt.session_active
       THEN /\ call' = ExceptHandler(call, MsgNotConnected, "closed")
            /\ failure_tracker' = record_failure(failure_tracker, now)
            /\ UNCHANGED rt
       ELSE /\ rt' = [rt EXCEPT !.pending_requests = DictSet(@, call.chunk_id)]
            /\ IF ~rt.conn_open
               THEN /\ call' = ExceptHandler(call, MsgSendOnClosed, "closed")
                    /\ failure_tracker' = record_failure(failure_tracker, now)
               ELSE /\ call' = [call EXCEPT !.pc = "await", !.fut = "waiting",
                                            !.stream_sent = TRUE]
                    /\ UNCHANGED failure_tracker
    /\ UNCHANGED <<now, prefer_realtime, hyb_session_active, current_topic,
                   rest_available, batch>>
    /\ UNCHANGED sessionVars
    /\ Observe

\* _message_handler, lines 235-273: a terminal response event
HandlerText(kind) ==
    /\ rt.exists /\ rt.conn_open /\ rt.handler_alive
    /\ IF kind # "empty" /\ rt.pending_requests # <<>>
       THEN LET head == Head(rt.pending_requests)
            IN  /\ rt' = [rt EXCEPT !.pending_requests = Tail(@)]
                /\ IF ~head.done /\ call.pc = "await" /\ call.fut = "waiting"
                      /\ call.chunk_id = head.chunk_id
                   THEN call' = [call EXCEPT !.fut = "result",
                                             !.res_sf = ParseKind(kind)]
                   ELSE UNCHANGED call
       ELSE UNCHANGED <<rt, call>>
    /\ UNCHANGED <<now, failure_tracker, prefer_realtime, hyb_session_active,
                   current_topic, rest_available, batch>>
    /\ UNCHANGED sessionVars
    /\ Observe

\* _message_handler, lines 211-219: an error event
HandlerError(msg) ==
    /\ rt.exists /\ rt.conn_open /\ rt.handler_alive
    /\ rt' = [rt EXCEPT !.pending_requests =
                 [i \in DOMAIN @ |-> [@[i] EXCEPT !.done = TRUE]]]
    /\ IF /\ call.pc = "await" /\ call.fut = "waiting"
          /\ HasKey(rt.pending_requests, call.chunk_id)
          /\ ~rt.pending_requests[KeyIndex(rt.pending_requests, call.chunk_id)].done
       THEN call' = [call EXCEPT !.fut = "exception", !.error = <<msg>>]
       ELSE UNCHANGED call
    /\ UNCHANGED <<now, failure_tracker, prefer_realtime, hyb_session_active,
                   current_topic, rest_available, batch>>
    /\ UNCHANGED sessionVars
    /\ Observe

\* The peer closes the connection; _message_handler, lines 275-281.  A clean
\* close ends the receive loop without an exception and leaves session_active.
ConnectionClosed(clean) ==
    /\ rt.exists /\ rt.conn_open
    /\ rt' = [rt EXCEPT !.conn_open = FALSE, !.handler_alive = FALSE,
                        !.session_active = IF clean THEN @ ELSE FALSE]
    /\ UNCHANGED <<now, failure_tracker, prefer_realtime, hyb_session_active,
                   current_topic, rest_available, call, batch>>
    /\ UNCHANGED sessionVars
    /\ Observe

\* asyncio.wait_for returns the future's result or raises its exception
Resume ==
    /\ call.pc = "await" /\ call.fut \in {"result", "exception"}
    /\ LET c2 == IF call.fut = "result"
                 THEN CheckResult(call, call.res_sf)
                 ELSE ExceptHandler(call, call.error,
                          IF call.error[1] = "Conversation already has an active response"
                          THEN "conflict" ELSE "server_error")
       IN  /\ call' = c2
           /\ failure_tracker' = IF c2.successes_recorded > 0
                                 THEN record_success(failure_tracker)
                                 ELSE record_failure(failure_tracker, now)
    /\ UNCHANGED <<now, prefer_realtime, hyb_session_active, current_topic, rt,
                   rest_available, batch>>
    /\ UNCHANGED sessionVars
    /\ Observe

\* semantic_function of the result returned on asyncio.TimeoutError
TimeoutSentinel == "error_timeout"

\* asyncio.TimeoutError after 15 s, lines 165-174
Timeout ==
    /\ call.pc = "await" /\ call.fut = "waiting"
    /\ rt' = [rt EXCEPT !.pending_requests = DictPop(@, call.chunk_id)]
    /\ call' = CheckResult([call EXCEPT !.timed_out = TRUE], TimeoutSentinel)
    /\ failure_tracker' = record_failure(failure_tracker, now)
    /\ UNCHANGED <<now, prefer_realtime, hyb_session_active, current_topic,
                   rest_available, batch>>
    /\ UNCHANGED sessionVars
    /\ Observe

\* Lines 171-210: the batch channel for this chunk
RestResult(id, results) ==
    IF Len(results) > 0
    THEN [chunk_id |-> id, semantic_function |-> results[1].semantic_function,
          api_method |-> "rest"]
    ELSE [chunk_id |-> id, semantic_function |-> Null, api_method |-> "failed"]

\* The batch channel did not classify the chunk
RestFailed(results) ==
    Len(results) = 0 \/ results[1].semantic_function = "error_api_call"

RestRequest ==
    /\ call.pc = "rest"
    /\ \E o \in RestOutcomes :
          LET results == analyze_batch_chunks_semantic(
                             <<call.chunk_id>>, rest_available, <<o>>)
          IN  call' = [call EXCEPT !.pc = "done", !.outcome = "returned",
                                   !.rest_requests = call.rest_requests + 1,
                                   !.rest_failed = RestFailed(results),
                                   !.result = RestResult(call.chunk_id, results)]
    /\ UNCHANGED <<now, failure_tracker, prefer_realtime, hyb_session_active,
                   current_topic, rt, rest_available, batch>>
    /\ UNCHANGED sessionVars
    /\ Observe

\* A direct caller of analyze_chunk
ClientCallOn(ids, topics) ==
    /\ batch.pc = "idle"
    /\ \E id \in ids, topic \in topics, force \in ForceMethods :
          StartCall("client", id, topic, force)
    /\ UNCHANGED <<now, prefer_realtime, hyb_session_active, current_topic, rt,
                   rest_available, batch>>
    /\ UNCHANGED sessionVars
    /\ Observe

ClientCall == ClientCallOn(ChunkIds, Topics)

\* The same caller, one chunk and one topic
ClientCallOne == ClientCallOn({1}, {"t1"})

ClientReturn ==
    /\ call.pc = "done" /\ call.caller = "client"
    /\ call' = IdleCall
    /\ UNCHANGED <<now, failure_tracker, prefer_realtime, hyb_session_active,
                   current_topic, rt, rest_available, batch>>
    /\ UNCHANGED sessionVars
    /\ Observe

\* Time passes between calls (a call lasts less than a minute)
Tick ==
    /\ call.pc = "idle" /\ batch.pc = "idle"
    /\ now < MaxTime
    /\ now' = now + 1
    /\ UNCHANGED <<failure_tracker, prefer_realtime, hyb_session_active,
                   current_topic, rt, rest_available, call, batch>>
    /\ UNCHANGED sessionVars
    /\ Observe

IdleBatch == [pc |-> "idle", chunks |-> <<>>, results |-> <<>>, topic |-> Null,
              mode |-> "none", head |-> 0, outcome |-> "none"]

\* analyze_semantic_function_batch not called
IdleSemantic ==
    [pc |-> "idle", n |-> 0, chunks |-> <<>>, next |-> 1, processed |-> <<>>,
     result |-> <<>>]

\* The threads that may be inside the paragraph cache together
WorkerIds == {1, 2}

\* popped: the key popitem has removed for this thread (0: none)
IdleWorker ==
    [pc |-> "idle", key |-> 0, ret |-> Null, error |-> FALSE, popped |-> 0]

\* _create_lru_cache(capacity)
EmptyCache(capacity) == [cache |-> <<>>, capacity |-> capacity]

\* _embedding_service_instance is None
NoService == [id |-> 0, ready |-> FALSE]

\* Before startup: no service created; loads counts the _initialize_model
\* calls of this process, failed_at_start tells that the first of them raised
NoEmbedding ==
    [singleton |-> NoService, app |-> NoService, loads |-> 0,
     failed_at_start |-> FALSE]

\* SessionStore(redis_url = "") : no client, nothing stored; written is the
\* entry saved last and not deleted since (history)
LocalStore ==
    [redis_client |-> FALSE, redis_up |-> FALSE, redis |-> NoSession,
     local_sessions |-> NoSession, written |-> NoSession]

NoReply == [of |-> "none"]

MaxRequests == 3        \* futures registered over the life of the analyzer
MaxStreamChunks == 2    \* longest chunk list handed to analyze_batch

\* SemanticRealtimeAnalyzer used on its own, before analyze_batch is called
IdleStream ==
    [pc |-> "idle", chunks |-> <<>>, results |-> <<>>,
     chunk_id |-> 0, req |-> 0, fut |-> "none", answer |-> 0,
     requests |-> 0, sent |-> {}, completed |-> {},
     owner |-> [id \in 1..MaxStreamChunks |-> 0], wire |-> <<>>]


\* Everything but the size of the paragraph cache
InitServices ==
    /\ now = 0
    /\ failure_tracker = FailureTrackerInit
    /\ consecutive_failures = 0
    /\ prefer_realtime \in BOOLEAN
    /\ hyb_session_active = FALSE
    /\ current_topic = Null
    /\ rt = NoAnalyzer
    /\ rest_available \in BOOLEAN
    /\ call = IdleCall
    /\ batch = IdleBatch
    /\ store = NoSession
    /\ procs = [p \in ProcIds |-> IdleProc]
    /\ sem = IdleSemantic
    /\ workers = [w \in WorkerIds |-> IdleWorker]
    /\ recency = <<>>
    /\ embedding = NoEmbedding
    /\ reply = NoReply
    /\ stream = IdleStream

InitHybrid ==
    /\ InitServices
    /\ paragraph_cache = EmptyCache(MaxCapacity)
    /\ kv = LocalStore

InitTracker ==
    /\ InitHybrid
    /\ prefer_realtime
    /\ rest_available

\* Everything but the clock
NextChunk ==
    \/ ClientCall
    \/ EnsureSession
    \/ SendRequest
    \/ \E kind \in TextKinds : HandlerText(kind)
    \/ \E msg \in ServerErrorMessages : HandlerError(msg)
    \/ \E clean \in BOOLEAN : ConnectionClosed(clean)
    \/ Resume
    \/ Timeout
    \/ RestRequest
    \/ ClientReturn

SpecChunk == InitHybrid /\ [][NextChunk]_vars

\* One chunk and one topic, with the clock
NextTracker ==
    \/ ClientCallOne
    \/ EnsureSession
    \/ SendRequest
    \/ \E kind \in TextKinds : HandlerText(kind)
    \/ \E msg \in ServerErrorMessages : HandlerError(msg)
    \/ \E clean \in BOOLEAN : ConnectionClosed(clean)
    \/ Resume
    \/ Timeout
    \/ RestRequest
    \/ ClientReturn
    \/ Tick

SpecTracker == InitTracker /\ [][NextTracker]_vars

(***************************************************************************)
(* HybridSemanticAnalyzer.analyze_batch                                    *)
(***************************************************************************)
MaxSeqChunks == 3     \* longest chunk list processed chunk by chunk

\* The chunk lists handed to analyze_batch: chunk i has id i
ChunkList(n) == [i \in 1..n |-> i]

\* Line 238
realtime_batch_size(n) == Min(RealtimeHeadMax, n \div RealtimeHeadDivisor)

\* Lines 231-244: the strategy decision.  should_use_realtime is evaluated
\* only for an adaptive call with more than AdaptiveMinChunks chunks.
BatchStart(n, topic, adaptive) ==
    /\ batch.pc = "idle" /\ call.pc = "idle"
    /\ LET consult == adaptive /\ n > AdaptiveMinChunks
           d == IF consult THEN should_use_realtime(failure_tracker, now)
                ELSE [ret |-> FALSE, tr |-> failure_tracker]
           hybrid == consult /\ d.ret
       IN  /\ ~hybrid => n <= MaxSeqChunks
           /\ failure_tracker' = d.tr
           /\ batch' = [pc |-> "loop", chunks |-> ChunkList(n), results |-> <<>>,
                        topic |-> topic,
                        mode |-> IF hybrid THEN "hybrid" ELSE "sequential",
                        head |-> IF hybrid THEN realtime_batch_size(n) ELSE n,
                        outcome |-> "none"]
    /\ UNCHANGED <<now, prefer_realtime, hyb_session_active, current_topic, rt,
                   rest_available, call>>
    /\ UNCHANGED sessionVars
    /\ Observe

\* Lines 247-253 and 283-288: the next analyze_chunk call of the loop
BatchNextChunk ==
    /\ batch.pc = "loop"
    /\ Len(batch.results) < batch.head
    /\ StartCall("batch", batch.chunks[Len(batch.results) + 1], batch.topic,
                 IF batch.mode = "hybrid" THEN "realtime" ELSE "none")
    /\ UNCHANGED <<now, prefer_realtime, hyb_session_active, current_topic, rt,
                   rest_available, batch>>
    /\ UNCHANGED sessionVars
    /\ Observe

\* Lines 254 and 289: the call returned, or its exception leaves analyze_batch
BatchCollect ==
    /\ batch.pc = "loop"
    /\ call.pc = "done" /\ call.caller = "batch"
    /\ batch' = IF call.outcome = "returned"
                THEN [batch EXCEPT !.results = Append(@, call.result)]
                ELSE [batch EXCEPT !.pc = "done", !.outcome = "raised"]
    /\ call' = IdleCall
    /\ UNCHANGED <<now, failure_tracker, prefer_realtime, hyb_session_active,
                   current_topic, rt, rest_available>>
    /\ UNCHANGED sessionVars
    /\ Observe

\* Lines 270-280: zip(rest_chunks, rest_results)
ZipRest(rest_chunks, rest_results) ==
    [i \in 1..Min(Len(rest_chunks), Len(rest_results)) |->
        [chunk_id |-> rest_chunks[i],
         semantic_function |-> rest_results[i].semantic_function,
         api_method |-> "rest"]]

\* Per-chunk outcomes of one concurrent batch-channel request: all chunks
\* classified, or all but the first or the last
RestPatterns(n) ==
    {[i \in 1..n |-> "label"]} \cup
    {[i \in 1..n |-> IF i = k THEN o ELSE "label"] :
        k \in {1, n}, o \in RestOutcomes \ {"label"}}

\* Lines 260-305: the tail through the batch channel, and the return
BatchFinish ==
    /\ batch.pc = "loop" /\ call.pc = "idle"
    /\ Len(batch.results) = batch.head
    /\ LET rest_chunks == SubSeq(batch.chunks, batch.head + 1, Len(batch.chunks))
       IN  IF batch.mode = "hybrid" /\ rest_chunks # <<>>
           THEN \E outcomes \in RestPatterns(Len(rest_chunks)) :
                   batch' = [batch EXCEPT
                       !.pc = "done", !.outcome = "returned",
                       !.results = @ \o ZipRest(rest_chunks,
                           analyze_batch_chunks_semantic(
                               rest_chunks, rest_available, outcomes))]
           ELSE batch' = [batch EXCEPT !.pc = "done", !.outcome = "returned"]
    /\ UNCHANGED <<now, failure_tracker, prefer_realtime, hyb_session_active,
                   current_topic, rt, rest_available, call>>
    /\ UNCHANGED sessionVars
    /\ Observe

\* analyze_semantic_hybrid, lines 346-350: the analyzer built for the request
\* is closed and dropped; the next request builds a new one
BatchReturn ==
    /\ batch.pc = "done"
    /\ batch' = IdleBatch
    /\ failure_tracker' = FailureTrackerInit
    /\ consecutive_failures' = 0
    /\ hyb_session_active' = FALSE
    /\ current_topic' = Null
    /\ rt' = NoAnalyzer
    /\ UNCHANGED <<now, prefer_realtime, rest_available, call>>
    /\ UNCHANGED sessionVars

BatchSizes == (1..MaxSeqChunks) \cup ((AdaptiveMinChunks + 1)..MaxChunks)

NextBatch ==
    \/ \E n \in BatchSizes, adaptive \in BOOLEAN : BatchStart(n, "t1", adaptive)
    \/ BatchNextChunk
    \/ BatchCollect
    \/ BatchFinish
    \/ BatchReturn
    \/ EnsureSession
    \/ SendRequest
    \/ \E kind \in TextKinds : HandlerText(kind)
    \/ \E msg \in ServerErrorMessages : HandlerError(msg)
    \/ \E clean \in BOOLEAN : ConnectionClosed(clean)
    \/ Resume
    \/ Timeout
    \/ RestRequest

SpecBatch == InitHybrid /\ [][NextBatch]_vars

(***************************************************************************)
(* Part II.  Texts: sequences of characters, NL the only whitespace        *)
(***************************************************************************)
MaxParas == 2         \* longest paragraph table
MaxTextLen == 3       \* longest paragraph text
MaxBatchParas == 16   \* every paragraph count up to this one is planned

NL == "\n"

IsSpace(c) == c = NL

RECURSIVE rstrip(_)
rstrip(t) ==
    IF t # <<>> /\ IsSpace(t[Len(t)]) THEN rstrip(SubSeq(t, 1, Len(t) - 1)) ELSE t

RECURSIVE lstrip(_)
lstrip(t) == IF t # <<>> /\ IsSpace(t[1]) THEN lstrip(Tail(t)) ELSE t

strip(t) == lstrip(rstrip(t))

\* str.replace('\n\n', '\n'): left to right, without overlap
RECURSIVE ReplaceDoubleNL(_)
ReplaceDoubleNL(t) ==
    IF Len(t) < 2 THEN t
    ELSE IF t[1] = NL /\ t[2] = NL
         THEN <<NL>> \o ReplaceDoubleNL(SubSeq(t, 3, Len(t)))
         ELSE <<t[1]>> \o ReplaceDoubleNL(Tail(t))

\* str.split('\n\n')
RECURSIVE SplitDoubleNL(_)
SplitDoubleNL(t) ==
    IF \E i \in 1..(Len(t) - 1) : t[i] = NL /\ t[i + 1] = NL
    THEN LET i == CHOOSE k \in 1..(Len(t) - 1) :
                     /\ t[k] = NL /\ t[k + 1] = NL
                     /\ \A j \in 1..(k - 1) : ~(t[j] = NL /\ t[j + 1] = NL)
         IN  <<SubSeq(t, 1, i - 1)>> \o SplitDoubleNL(SubSeq(t, i + 2, Len(t)))
    ELSE <<t>>

RECURSIVE StripNonEmpty(_)
StripNonEmpty(parts) ==
    IF parts = <<>> THEN <<>>
    ELSE IF strip(Head(parts)) # <<>>
         THEN <<strip(Head(parts))>> \o StripNonEmpty(Tail(parts))
         ELSE StripNonEmpty(Tail(parts))

\* utils/text_processing.py (the alphabet has no '\r')
split_into_paragraphs(text) == StripNonEmpty(SplitDoubleNL(text))

\* orchestrator.py line 376
merged_text(text1, text2) ==
    strip(ReplaceDoubleNL(rstrip(text1) \o <<NL>> \o lstrip(text2)))

(***************************************************************************)
(* The paragraph table (DataFrame): a sequence of rows, the index of a row *)
(* being its position less one                                             *)
(***************************************************************************)
SessionTopic == "t1"

SignalFor(topic) == IF topic = "t1" THEN "signal_t1" ELSE "signal_t2"

LabelFor(topic) == IF topic = "t1" THEN "label_t1" ELSE "label_t2"

\* What the three analysis tasks of one pipeline run deliver
AnalysisOutcomes ==
    {AllOk,
     [readability |-> "ok", signal |-> "ok", semantic |-> "unavailable"],
     [readability |-> "failed", signal |-> "null", semantic |-> "failed"]}

\* Variant of the pipeline in which one failed task voids the whole result
\* (gather without return_exceptions, the error then swallowed)
run_analysis_pipeline_all_or_nothing(paragraphs, topic, o) ==
    [i \in DOMAIN paragraphs |->
        [paragraph_id |-> i - 1,
         text |-> paragraphs[i],
         readability |-> IF o.readability = "ok" /\ o.semantic # "failed"
                         THEN "r" ELSE Null,
         signal_strength |-> IF o.signal = "ok" /\ o.semantic # "failed"
                             THEN SignalFor(topic) ELSE Null,
         semantic_function |->
             CASE o.semantic = "ok" -> LabelFor(topic)
               [] o.semantic = "unavailable" -> "unavailable_api"
               [] OTHER -> Null,
         semantic_method |-> IF o.semantic = "failed" THEN Null ELSE "api",
         semantic_error |-> IF o.semantic = "unavailable" THEN "error" ELSE Null]]

\* _run_analysis_pipeline, lines 73-128: one row per paragraph; a task that
\* raised leaves its columns empty
run_analysis_pipeline(paragraphs, topic, o) ==
    [i \in DOMAIN paragraphs |->
        [paragraph_id |-> i - 1,
         text |-> paragraphs[i],
         readability |-> IF o.readability = "ok" THEN "r" ELSE Null,
         signal_strength |-> IF o.signal = "ok" THEN SignalFor(topic) ELSE Null,
         semantic_function |->
             CASE o.semantic = "ok" -> LabelFor(topic)
               [] o.semantic = "unavailable" -> "unavailable_api"
               [] OTHER -> Null,
         semantic_method |-> IF o.semantic = "failed" THEN Null ELSE "api",
         semantic_error |-> IF o.semantic = "unavailable" THEN "error" ELSE Null]]

\* Variant of Renumber that leaves the stored ids alone
Renumber_stale(df) == df

\* df['paragraph_id'] = range(len(df))
Renumber(df) == [i \in DOMAIN df |-> [df[i] EXCEPT !.paragraph_id = i - 1]]

\* Variant of ResetSemantic that clears the relevance column as well
ResetSemantic_wide(df) ==
    [i \in DOMAIN df |-> [df[i] EXCEPT !.semantic_function = Null,
                                       !.semantic_method = Null,
                                       !.semantic_error = Null,
                                       !.signal_strength = Null]]

\* The three label columns set to None
ResetSemantic(df) ==
    [i \in DOMAIN df |-> [df[i] EXCEPT !.semantic_function = Null,
                                       !.semantic_method = Null,
                                       !.semantic_error = Null]]

RECURSIVE SelectSeq2(_, _, _)
\* the rows at the positions of df that are in keep
SelectSeq2(df, keep, i) ==
    IF i > Len(df) THEN <<>>
    ELSE (IF i \in keep THEN <<df[i]>> ELSE <<>>) \o SelectSeq2(df, keep, i + 1)

RowsWhere(df, keep) == SelectSeq2(df, keep, 1)

Ids(df) == {df[i].paragraph_id : i \in DOMAIN df}

\* Result of an operation on a table that it rejects
Rejected(df) == [ok |-> FALSE, df |-> df]

Accepted(df) == [ok |-> TRUE, df |-> df]

(***************************************************************************)
(* SessionStore: save_analysis and get_analysis                            *)
(***************************************************************************)
\* to_json(orient="records") keeps the rows in order and drops the index
save_analysis(df, topic) == [exists |-> TRUE, df |-> df, topic |-> topic]

\* read_json gives the rows back under a fresh 0..n-1 index
get_analysis(st) == st

(***************************************************************************)
(* AnalysisOrchestrator: the structural edits as functions of the table    *)
(* read, the arguments and what the analysis tasks deliver                 *)
(***************************************************************************)
\* A row holding only paragraph_id and text
NewRow(id, text) ==
    [paragraph_id |-> id, text |-> text, readability |-> Null,
     signal_strength |-> Null, semantic_function |-> Null,
     semantic_method |-> Null, semantic_error |-> Null]

\* df.loc[idx, col] = new_df.iloc[k][col] for the metric columns
CopyMetrics(row, m) ==
    [row EXCEPT !.readability = m.readability,
                !.signal_strength = m.signal_strength,
                !.semantic_function = m.semantic_function,
                !.semantic_method = m.semantic_method,
                !.semantic_error = m.semantic_error]

\* merge_paragraphs, lines 368-393
merge_paragraphs(df, id1, id2, topic, o) ==
    IF ~(0 <= id1 /\ id1 < Len(df)) \/ ~(0 <= id2 /\ id2 < Len(df))
    THEN Rejected(df)
    ELSE LET idx1 == Min(id1, id2)
             idx2 == Max(id1, id2)
             text == merged_text(df[idx1 + 1].text, df[idx2 + 1].text)
             dropped == RowsWhere(df, DOMAIN df \ {idx1 + 1, idx2 + 1})
             placed == Renumber(SubSeq(dropped, 1, idx1)
                                \o <<NewRow(idx1, text)>>
                                \o SubSeq(dropped, idx1 + 1, Len(dropped)))
             new_df == run_analysis_pipeline(<<text>>, topic, o)
         IN  Accepted([placed EXCEPT ![idx1 + 1] = CopyMetrics(@, new_df[1])])

\* split_paragraph, lines 412-447
split_paragraph(df, id, position, topic, o) ==
    IF ~(0 <= id /\ id < Len(df)) THEN Rejected(df)
    ELSE IF ~(0 < position /\ position < Len(df[id + 1].text)) THEN Rejected(df)
    ELSE LET original_text == df[id + 1].text
             text_first == rstrip(SubSeq(original_text, 1, position))
             text_second ==
                 lstrip(SubSeq(original_text, position + 1, Len(original_text)))
             dropped == RowsWhere(df, DOMAIN df \ {id + 1})
             placed == Renumber(SubSeq(dropped, 1, id)
                                \o <<NewRow(id, text_first),
                                     NewRow(id + 1, text_second)>>
                                \o SubSeq(dropped, id + 1, Len(dropped)))
             new_df == run_analysis_pipeline(<<text_first, text_second>>, topic, o)
         IN  Accepted([placed EXCEPT ![id + 1] = CopyMetrics(@, new_df[1]),
                                     ![id + 2] = CopyMetrics(@, new_df[2])])

RECURSIVE LocRows(_, _)
\* df.set_index('paragraph_id').loc[new_order]
LocRows(df, new_order) ==
    IF new_order = <<>> THEN <<>>
    ELSE RowsWhere(df, {i \in DOMAIN df : df[i].paragraph_id = Head(new_order)})
         \o LocRows(df, Tail(new_order))

Range(seq) == {seq[i] : i \in DOMAIN seq}

\* reorder_paragraphs, lines 474-491; an empty table has no paragraph_id
\* column to read
reorder_paragraphs(df, new_order) ==
    IF df = <<>> \/ Ids(df) # Range(new_order) THEN Rejected(df)
    ELSE Accepted(ResetSemantic(Renumber(LocRows(df, new_order))))

\* delete_paragraph_from_session, lines 553-569
delete_paragraph_from_session(df, id) ==
    IF id \notin Ids(df) THEN Rejected(df)
    ELSE Accepted(ResetSemantic(Renumber(
             RowsWhere(df, {i \in DOMAIN df : df[i].paragraph_id # id}))))

\* update_text_and_restructure_paragraph, lines 592-673
update_text_and_restructure_paragraph(df, id, full_new_text, topic, o) ==
    IF id \notin Ids(df) THEN Rejected(df)
    ELSE IF strip(full_new_text) = <<>>
    THEN delete_paragraph_from_session(df, id)
    ELSE LET index == CHOOSE i \in DOMAIN df :
                          /\ df[i].paragraph_id = id
                          /\ \A j \in 1..(i - 1) : df[j].paragraph_id # id
             new_paragraph_texts == split_into_paragraphs(strip(full_new_text))
             reanalyzed == run_analysis_pipeline(new_paragraph_texts, topic, o)
             interim == [k \in DOMAIN new_paragraph_texts |->
                            CopyMetrics(NewRow(index - 1 + k - 1,
                                               new_paragraph_texts[k]),
                                        reanalyzed[k])]
         IN  Accepted(ResetSemantic(Renumber(
                 SubSeq(df, 1, index - 1) \o interim
                 \o SubSeq(df, index + 1, Len(df)))))

StructuralOps == {"merge", "split", "reorder", "delete", "update_text"}

\* The table a request computes from the table it read
Apply(req, df, topic, o) ==
    CASE req.op = "merge" -> merge_paragraphs(df, req.id1, req.id2, topic, o)
      [] req.op = "split" -> split_paragraph(df, req.id1, req.id2, topic, o)
      [] req.op = "reorder" -> reorder_paragraphs(df, req.order)
      [] req.op = "delete" -> delete_paragraph_from_session(df, req.id1)
      [] req.op = "update_text" ->
             update_text_and_restructure_paragraph(df, req.id1, req.text, topic, o)
      [] OTHER -> Rejected(df)

\* A table saved empty comes back without columns: to_json writes "[]" and
\* read_json builds a frame with no columns (session_store.py lines 61, 140),
\* so reading df['paragraph_id'] raises KeyError (orchestrator.py lines 474,
\* 553, 592)
MissingColumn(req, df) ==
    /\ df = <<>>
    /\ req.op \in {"reorder", "delete", "update_text"}

\* Whether every text and the table itself stay within the bounds
Fits(df) ==
    /\ Len(df) <= MaxParas
    /\ \A i \in DOMAIN df : Len(df[i].text) <= MaxTextLen

(***************************************************************************)
(* Orchestrator requests as processes: the code up to its await, and the   *)
(* code after it                                                           *)
(***************************************************************************)
\* Documents submitted for a full analysis
Documents ==
    {<<>>,
     <<"a", NL, "b">>,
     <<"a", NL, NL, "b">>,
     <<"a", NL, NL, "b", NL, NL, "a">>}

\* Replacement texts of an edited paragraph
NewTexts == {<<>>, <<NL>>, <<"b">>, <<"b", NL, NL, "a">>}

ParagraphIdArgs == (0 - 1)..MaxParas

Orders == UNION {[1..n -> 0..(MaxParas - 1)] : n \in 1..MaxParas}

\* A request that read the session and got to its await, or ended before it
Started(p, req, outcome) ==
    procs' = [q \in ProcIds |->
                 IF q = p
                 THEN [pc |-> IF outcome = "pending" THEN "await" ELSE "done",
                       req |-> req, read |-> get_analysis(store), o |-> AllOk,
                       outcome |-> outcome,
                       overlapped |-> \E r \in ProcIds \ {p} : procs[r].pc = "await"]
                 ELSE IF procs[q].pc = "await"
                      THEN [procs[q] EXCEPT !.overlapped = TRUE]
                      ELSE procs[q]]

\* analyze_full_text up to the await of line 150
AnalyzeFullTextStart(p, text) ==
    /\ procs[p].pc = "idle"
    /\ Len(split_into_paragraphs(text)) <= MaxParas
    /\ LET req == [NoRequest EXCEPT !.op = "analyze_full_text", !.text = text]
       IN  Started(p, req, IF split_into_paragraphs(text) = <<>>
                           THEN "empty" ELSE "pending")
    /\ UNCHANGED <<store, hybridVars>>

\* analyze_full_text, lines 150-152
AnalyzeFullTextFinish(p, o) ==
    /\ procs[p].pc = "await"
    /\ procs[p].req.op = "analyze_full_text"
    /\ store' = save_analysis(
           run_analysis_pipeline(split_into_paragraphs(procs[p].req.text),
                                 SessionTopic, o),
           SessionTopic)
    /\ procs' = [procs EXCEPT ![p].pc = "done", ![p].outcome = "saved", ![p].o = o]
    /\ UNCHANGED hybridVars

\* An edit that awaits the analysis pipeline, up to the await
EditStart(p, req) ==
    /\ procs[p].pc = "idle"
    /\ LET st == get_analysis(store)
           r == Apply(req, st.df, st.topic, AllOk)
       IN  /\ st.exists => Fits(r.df)
           /\ Started(p, req, IF ~st.exists THEN "not_found"
                              ELSE IF MissingColumn(req, st.df) THEN "error"
                              ELSE IF ~r.ok THEN "rejected" ELSE "pending")
    /\ UNCHANGED <<store, hybridVars>>

\* The same edit after the await: metrics filled in, table saved
EditFinish(p, op, o) ==
    /\ procs[p].pc = "await"
    /\ procs[p].req.op = op
    /\ LET st == procs[p].read
       IN  store' = save_analysis(Apply(procs[p].req, st.df, st.topic, o).df,
                                  st.topic)
    /\ procs' = [procs EXCEPT ![p].pc = "done", ![p].outcome = "saved", ![p].o = o]
    /\ UNCHANGED hybridVars

\* An edit without an await between get_analysis and save_analysis
EditAtOnce(p, req) ==
    /\ procs[p].pc = "idle"
    /\ LET st == get_analysis(store)
           r == Apply(req, st.df, st.topic, AllOk)
       IN  /\ st.exists => Fits(r.df)
           /\ Started(p, req, IF ~st.exists THEN "not_found"
                              ELSE IF MissingColumn(req, st.df) THEN "error"
                              ELSE IF ~r.ok THEN "rejected" ELSE "saved")
           /\ store' = IF st.exists /\ r.ok
                       THEN save_analysis(r.df, st.topic) ELSE store
    /\ UNCHANGED hybridVars

MergeStart(p, id1, id2) ==
    EditStart(p, [NoRequest EXCEPT !.op = "merge", !.id1 = id1, !.id2 = id2])

MergeFinish(p, o) == EditFinish(p, "merge", o)

SplitStart(p, id, position) ==
    EditStart(p, [NoRequest EXCEPT !.op = "split", !.id1 = id, !.id2 = position])

SplitFinish(p, o) == EditFinish(p, "split", o)

Reorder(p, new_order) ==
    EditAtOnce(p, [NoRequest EXCEPT !.op = "reorder", !.order = new_order])

Delete(p, id) ==
    EditAtOnce(p, [NoRequest EXCEPT !.op = "delete", !.id1 = id])

\* update_text_and_restructure_paragraph with a text that strips to nothing
\* (lines 607-618) saves without awaiting
UpdateTextEmpty(p, id, text) ==
    /\ strip(text) = <<>>
    /\ EditAtOnce(p, [NoRequest EXCEPT !.op = "update_text", !.id1 = id,
                                       !.text = text])

UpdateTextStart(p, id, text) ==
    /\ strip(text) # <<>>
    /\ EditStart(p, [NoRequest EXCEPT !.op = "update_text", !.id1 = id,
                                      !.text = text])

UpdateTextFinish(p, o) == EditFinish(p, "update_text", o)

\* The response is sent; the coroutine is gone
Return(p) ==
    /\ procs[p].pc = "done"
    /\ procs' = [procs EXCEPT ![p] = IdleProc]
    /\ UNCHANGED <<store, hybridVars>>

SessionStep(p, outcomes, documents, texts, ids, orders) ==
    \/ \E text \in documents : AnalyzeFullTextStart(p, text)
    \/ \E o \in outcomes : AnalyzeFullTextFinish(p, o)
    \/ \E id1, id2 \in ids : MergeStart(p, id1, id2)
    \/ \E o \in outcomes : MergeFinish(p, o)
    \/ \E id \in ids, position \in 0..MaxTextLen : SplitStart(p, id, position)
    \/ \E o \in outcomes : SplitFinish(p, o)
    \/ \E new_order \in orders : Reorder(p, new_order)
    \/ \E id \in ids : Delete(p, id)
    \/ \E id \in ids, text \in texts : UpdateTextEmpty(p, id, text)
    \/ \E id \in ids, text \in texts : UpdateTextStart(p, id, text)
    \/ \E o \in outcomes : UpdateTextFinish(p, o)
    \/ Return(p)

\* One request at a time, every input
NextSession ==
    SessionStep(1, AnalysisOutcomes, Documents, NewTexts, ParagraphIdArgs, Orders)

SpecSession == InitTracker /\ [][NextSession]_vars

\* Two requests on the same session id, every analysis task succeeding
RaceStep(p) ==
    \/ AnalyzeFullTextStart(p, <<"a", NL, NL, "b">>)
    \/ AnalyzeFullTextFinish(p, AllOk)
    \/ MergeStart(p, 0, 1)
    \/ MergeFinish(p, AllOk)
    \/ SplitStart(p, 0, 1)
    \/ SplitFinish(p, AllOk)
    \/ Reorder(p, <<1, 0>>)
    \/ \E id \in 0..1 : Delete(p, id)
    \/ Return(p)

NextRace == \E p \in ProcIds : RaceStep(p)

SpecRace == InitTracker /\ [][NextRace]_vars

(***************************************************************************)
(* The preview operations: analyze_incremental, calculate_paragraph_metrics*)
(* and calculate_text_metrics                                              *)
(***************************************************************************)
PreviewOps == {"analyze_incremental", "paragraph_metrics", "text_metrics"}

\* What a preview hands back: how it ended, and the table it saves, if any
Previewed(outcome, df) == [outcome |-> outcome, save |-> FALSE, df |-> df]

\* Variant of analyze_incremental that saves the table carrying the new text
analyze_incremental_saving(st, id, new_text, o) ==
    IF ~st.exists THEN Previewed("not_found", st.df)
    ELSE IF ~(0 <= id /\ id < Len(st.df)) THEN Previewed("rejected", st.df)
    ELSE [outcome |-> "metrics", save |-> TRUE,
          df |-> [st.df EXCEPT ![id + 1].text = new_text]]

\* analyze_incremental, lines 160-232: the new text goes into a copy of the
\* table; an analysis step that raises leaves the coroutine with its exception
analyze_incremental(st, id, new_text, o) ==
    IF ~st.exists THEN Previewed("not_found", st.df)
    ELSE IF ~(0 <= id /\ id < Len(st.df)) THEN Previewed("rejected", st.df)
    ELSE LET temp_df == [st.df EXCEPT ![id + 1].text = new_text]
         IN  IF o.readability = "failed" \/ o.semantic = "failed"
             THEN Previewed("raised", temp_df)
             ELSE Previewed("metrics", temp_df)

\* calculate_paragraph_metrics, lines 731-772: the fast pipeline on [text]
calculate_paragraph_metrics(st, id, text, o) ==
    IF ~st.exists THEN Previewed("not_found", st.df)
    ELSE Previewed("metrics", st.df)

\* calculate_text_metrics, lines 781-805
calculate_text_metrics(st, text, o) ==
    IF ~st.exists THEN Previewed("not_found", st.df)
    ELSE IF split_into_paragraphs(text) = <<>> THEN Previewed("none", st.df)
    ELSE Previewed("metrics", st.df)

Preview(req, st, o) ==
    CASE req.op = "analyze_incremental" ->
             analyze_incremental(st, req.id1, req.text, o)
      [] req.op = "paragraph_metrics" ->
             calculate_paragraph_metrics(st, req.id1, req.text, o)
      [] OTHER -> calculate_text_metrics(st, req.text, o)

\* A preview up to its first await
PreviewStart(p, op, id, text) ==
    /\ procs[p].pc = "idle"
    /\ op \in PreviewOps
    /\ LET req == [NoRequest EXCEPT !.op = op, !.id1 = id, !.text = text]
           r == Preview(req, get_analysis(store), AllOk)
       IN  Started(p, req, IF r.outcome = "metrics" THEN "pending" ELSE r.outcome)
    /\ UNCHANGED <<store, hybridVars>>

\* The preview after its awaits
PreviewFinish(p, o) ==
    /\ procs[p].pc = "await"
    /\ procs[p].req.op \in PreviewOps
    /\ LET r == Preview(procs[p].req, procs[p].read, o)
       IN  /\ store' = IF r.save THEN save_analysis(r.df, procs[p].read.topic)
                       ELSE store
           /\ procs' = [procs EXCEPT ![p].pc = "done", ![p].outcome = r.outcome]
    /\ UNCHANGED hybridVars

\* Previews next to full analyses and deletions, two requests at a time
PreviewStep(p) ==
    \/ \E text \in {<<"a">>, <<"a", NL, NL, "b">>} : AnalyzeFullTextStart(p, text)
    \/ AnalyzeFullTextFinish(p, AllOk)
    \/ Delete(p, 0)
    \/ \E op \in PreviewOps, id \in {0, 2}, text \in {<<>>, <<"b">>} :
           PreviewStart(p, op, id, text)
    \/ \E o \in AnalysisOutcomes : PreviewFinish(p, o)
    \/ Return(p)

NextPreview == \E p \in ProcIds : PreviewStep(p)

SpecPreview == InitTracker /\ [][NextPreview]_vars

(***************************************************************************)
(* The analysis pipeline alone: full analyses of every document, each of   *)
(* the three tasks delivering or failing on its own                        *)
(***************************************************************************)
TaskOutcomes ==
    [readability : {"ok", "failed"},
     signal : {"ok", "null"},
     semantic : {"ok", "unavailable", "failed"}]

NextPipeline ==
    \/ \E text \in Documents : AnalyzeFullTextStart(1, text)
    \/ \E o \in TaskOutcomes : AnalyzeFullTextFinish(1, o)
    \/ Return(1)

SpecPipeline == InitTracker /\ [][NextPipeline]_vars

(***************************************************************************)
(* update_topic: the session is saved with the new topic first, then the   *)
(* relevance and the labels are recomputed and the session is saved again  *)
(***************************************************************************)
\* analyze_signal_strength_async, lines 378-401: the relevance column of
\* every row is computed for the topic, or is NA when the model is not ready
\* or the computation failed (the batch function catches every exception)
analyze_signal_strength_async(df, topic, o) ==
    [i \in DOMAIN df |->
        [df[i] EXCEPT !.signal_strength =
                          IF o.signal = "ok" THEN SignalFor(topic) ELSE Null]]

\* Variant of the label update that keeps the stored label columns
update_topic_semantic_kept(df, topic, o) == df

\* update_topic, lines 526-531: the three label columns are taken from the
\* result of analyze_semantic_function_batch, which marks every row
\* "unavailable_api" when the service is not available
update_topic_semantic(df, topic, o) ==
    [i \in DOMAIN df |->
        [df[i] EXCEPT !.semantic_function =
                          IF o.semantic = "ok" THEN LabelFor(topic)
                          ELSE "unavailable_api",
                      !.semantic_method = "api",
                      !.semantic_error =
                          IF o.semantic = "ok" THEN Null ELSE "error"]]

\* update_topic, lines 512-523: unknown session, or the first save and the
\* way to the awaits
UpdateTopicStart(p, new_topic) ==
    /\ procs[p].pc = "idle"
    /\ LET st == get_analysis(store)
           req == [NoRequest EXCEPT !.op = "update_topic", !.topic = new_topic]
       IN  /\ Started(p, req, IF st.exists THEN "pending" ELSE "not_found")
           /\ store' = IF st.exists THEN save_analysis(st.df, new_topic)
                       ELSE store
    /\ UNCHANGED hybridVars

\* update_topic, lines 523-538. Between the two awaits only the local table
\* changes, so both are one step; an exception of the label task leaves the
\* coroutine before the second save
UpdateTopicFinish(p, o) ==
    /\ procs[p].pc = "await"
    /\ procs[p].req.op = "update_topic"
    /\ LET new_topic == procs[p].req.topic
           df == analyze_signal_strength_async(procs[p].read.df, new_topic, o)
       IN  IF o.semantic = "failed"
           THEN /\ store' = store
                /\ procs' = [procs EXCEPT ![p].pc = "done",
                                          ![p].outcome = "error", ![p].o = o]
           ELSE /\ store' = save_analysis(
                               update_topic_semantic(df, new_topic, o), new_topic)
                /\ procs' = [procs EXCEPT ![p].pc = "done",
                                          ![p].outcome = "saved", ![p].o = o]
    /\ UNCHANGED hybridVars

\* Full analyses, deletions and topic changes, one request at a time
NextTopic ==
    \/ \E text \in Documents : AnalyzeFullTextStart(1, text)
    \/ \E o \in TaskOutcomes : AnalyzeFullTextFinish(1, o)
    \/ \E id \in 0..1 : Delete(1, id)
    \/ \E new_topic \in Topics : UpdateTopicStart(1, new_topic)
    \/ \E o \in TaskOutcomes : UpdateTopicFinish(1, o)
    \/ Return(1)

SpecTopic == InitTracker /\ [][NextTopic]_vars

(***************************************************************************)
(* Requests with every argument, valid or not, on a session that may be    *)
(* missing, emptied or filled; the analysis tasks all succeed              *)
(***************************************************************************)
NextErrors ==
    \/ \E text \in {<<"a", NL, "b">>, <<"a", NL, NL, "b">>} :
          AnalyzeFullTextStart(1, text)
    \/ AnalyzeFullTextFinish(1, AllOk)
    \/ \E id1, id2 \in ParagraphIdArgs : MergeStart(1, id1, id2)
    \/ MergeFinish(1, AllOk)
    \/ \E id \in ParagraphIdArgs, position \in 0..MaxTextLen :
          SplitStart(1, id, position)
    \/ SplitFinish(1, AllOk)
    \/ \E new_order \in Orders : Reorder(1, new_order)
    \/ \E id \in ParagraphIdArgs : Delete(1, id)
    \/ \E new_topic \in Topics : UpdateTopicStart(1, new_topic)
    \/ UpdateTopicFinish(1, AllOk)
    \/ Return(1)

SpecErrors == InitTracker /\ [][NextErrors]_vars

(***************************************************************************)
(* analyze_semantic_function_batch: the paragraphs are cut into chunks,    *)
(* one request per chunk, and the chunk results are put back by index.     *)
(* Paragraph i of the input is the row with index i; its text is named i.  *)
(***************************************************************************)
\* int(x / y) of Python: the quotient cut towards zero
TruncDiv(a, b) == IF a >= 0 THEN a \div b ELSE 0 - ((0 - a) \div b)

\* Variant of the chunk size that leaves the response tokens out
max_paragraphs_per_chunk_no_response(num_total_paragraphs) ==
    Max(1, Min(TruncDiv(API_MAX_TOKENS_REQUEST_LIMIT - PROMPT_OVERHEAD_TOKENS,
                        TOKENS_PER_PARAGRAPH_CONTENT_ESTIMATE),
               ChunkSizeCap))

\* lines 203-207
max_paragraphs_per_chunk(num_total_paragraphs) ==
    Max(1, Min(TruncDiv(API_MAX_TOKENS_REQUEST_LIMIT - PROMPT_OVERHEAD_TOKENS
                          - num_total_paragraphs
                            * TOKENS_PER_PARAGRAPH_RESPONSE_ESTIMATE,
                        TOKENS_PER_PARAGRAPH_CONTENT_ESTIMATE),
               ChunkSizeCap))

\* result_df.iloc[i : i + size]: the index labels of the slice
Slice(n, i, size) == [k \in 1..Min(size, n - i) |-> i + k - 1]

\* The values of range(start, stop, step), step > 0
RangeStep(start, stop, step) ==
    [c \in 1..((stop - start + step - 1) \div step) |-> start + (c - 1) * step]

\* Variant of Slices that steps one row short of the chunk size
SlicesOverlapping(n, i, size) ==
    LET starts == RangeStep(i, n, Max(1, size - 1))
    IN  [c \in DOMAIN starts |-> Slice(n, starts[c], size)]

\* for i in range(0, n, size): append(iloc[i : i + size]), lines 211-212
Slices(n, i, size) ==
    LET starts == RangeStep(i, n, size)
    IN  [c \in DOMAIN starts |-> Slice(n, starts[c], size)]

\* chunks_to_process_dfs, lines 196-217 (single_paragraph = False)
chunks_to_process(n) ==
    IF n > max_paragraphs_per_chunk(n)
    THEN Slices(n, 0, max_paragraphs_per_chunk(n))
    ELSE <<Slice(n, 0, n)>>

\* result_df as initialised in lines 177-181
DefaultRows(n, error) ==
    [i \in 1..n |-> [index |-> i - 1, text |-> i - 1,
                     semantic_function |-> "unavailable_api",
                     label_of |-> Null, semantic_error |-> error]]

\* temp_chunk_results_df of one chunk, lines 233-279: the k-th label of the
\* response is the label of the k-th text sent and goes to the k-th index of
\* the chunk
ChunkResults(chunk, outcome) ==
    [k \in DOMAIN chunk |->
        IF outcome = "ok"
        THEN [index |-> chunk[k], semantic_function |-> "label",
              label_of |-> chunk[k], semantic_error |-> Null]
        ELSE [index |-> chunk[k], semantic_function |-> "error_api_call",
              label_of |-> Null, semantic_error |-> "error"]]

\* The rows of pd.concat(dfs): chunk number and place in the chunk
ConcatRows(dfs) == UNION {{<<c, k>> : k \in DOMAIN dfs[c]} : c \in DOMAIN dfs}

\* result_df[col] = final_combined_results_df[col], lines 305-311: the values
\* of the concatenated chunk results are aligned on the index; a row whose
\* index is not among them gets NaN
UpdateByIndex(rows, dfs) ==
    [i \in DOMAIN rows |->
        LET hits == {ck \in ConcatRows(dfs) :
                        dfs[ck[1]][ck[2]].index = rows[i].index}
        IN  IF hits # {}
            THEN LET ck == CHOOSE ck \in hits : TRUE
                     r == dfs[ck[1]][ck[2]]
                 IN  [rows[i] EXCEPT
                         !.semantic_function = r.semantic_function,
                         !.label_of = r.label_of,
                         !.semantic_error = r.semantic_error]
            ELSE [rows[i] EXCEPT !.semantic_function = Null, !.label_of = Null,
                                 !.semantic_error = Null]]

\* Paragraph counts of the calls made: every small one, and some where the
\* response estimate eats the whole budget
ParagraphCounts == (0..MaxBatchParas) \cup {93, 94, 100, 101, 107}

\* lines 172-217: up to the first request
SemanticBatchStart(n) ==
    /\ sem.pc = "idle"
    /\ sem' = IF ~rest_available
              THEN [IdleSemantic EXCEPT !.pc = "done", !.n = n,
                                        !.result = DefaultRows(n, "error")]
              ELSE IF n = 0
              THEN [IdleSemantic EXCEPT !.pc = "done"]
              ELSE [IdleSemantic EXCEPT !.pc = "chunks", !.n = n,
                                        !.chunks = chunks_to_process(n),
                                        !.result = DefaultRows(n, Null)]
    /\ UNCHANGED <<now, failure_tracker, consecutive_failures, prefer_realtime,
                   hyb_session_active, current_topic, rt, rest_available, call,
                   batch, store, procs, paragraph_cache, workers, recency,
                   backendVars>>

\* lines 222-298: the request of the next chunk and its answer
SemanticBatchChunk(outcome) ==
    /\ sem.pc = "chunks"
    /\ sem.next <= Len(sem.chunks)
    /\ sem' = [sem EXCEPT
                  !.processed = Append(@, ChunkResults(sem.chunks[sem.next],
                                                       outcome)),
                  !.next = @ + 1]
    /\ UNCHANGED <<now, failure_tracker, consecutive_failures, prefer_realtime,
                   hyb_session_active, current_topic, rt, rest_available, call,
                   batch, store, procs, paragraph_cache, workers, recency,
                   backendVars>>

\* lines 300-313
SemanticBatchCombine ==
    /\ sem.pc = "chunks"
    /\ sem.next > Len(sem.chunks)
    /\ sem' = [sem EXCEPT
                  !.pc = "done",
                  !.result = UpdateByIndex(@, sem.processed)]
    /\ UNCHANGED <<now, failure_tracker, consecutive_failures, prefer_realtime,
                   hyb_session_active, current_topic, rt, rest_available, call,
                   batch, store, procs, paragraph_cache, workers, recency,
                   backendVars>>

\* The caller has the table
SemanticBatchReturn ==
    /\ sem.pc = "done"
    /\ sem' = IdleSemantic
    /\ UNCHANGED <<now, failure_tracker, consecutive_failures, prefer_realtime,
                   hyb_session_active, current_topic, rt, rest_available, call,
                   batch, store, procs, paragraph_cache, workers, recency,
                   backendVars>>

\* Every request answered
NextPlanner ==
    \/ \E n \in ParagraphCounts : SemanticBatchStart(n)
    \/ SemanticBatchChunk("ok")
    \/ SemanticBatchCombine
    \/ SemanticBatchReturn

\* The labelling service available or not
InitPlanner ==
    /\ InitHybrid
    /\ prefer_realtime

SpecPlanner == InitPlanner /\ [][NextPlanner]_vars

(***************************************************************************)
(* The paragraph-vector cache of EmbeddingService: an OrderedDict, oldest  *)
(* entry first, used by the relevance computations, each of which runs in  *)
(* a worker thread of its own. A thread may be suspended between any two   *)
(* operations on the OrderedDict.                                          *)
(***************************************************************************)
CacheKeys == 1..MaxKeys

Capacities == 0..MaxCapacity

\* hashlib.md5(text) -> the vector of the text
EmbeddingOf(key) == [of |-> key]

CachedKeys(cache) == {cache[i].key : i \in DOMAIN cache}

\* Variant of move_to_end that leaves the order as it is
move_to_end_not(cache, key) == cache

\* OrderedDict.move_to_end(key), the key being present
move_to_end(cache, key) ==
    SelectSeq(cache, LAMBDA e : e.key # key)
    \o SelectSeq(cache, LAMBDA e : e.key = key)

\* self.cache[key] = value: a new key goes to the end, a present key keeps
\* its place
SetItem(cache, key, value) ==
    IF key \in CachedKeys(cache)
    THEN [i \in DOMAIN cache |->
             IF cache[i].key = key THEN [key |-> key, value |-> value]
             ELSE cache[i]]
    ELSE Append(cache, [key |-> key, value |-> value])

GetItem(cache, key) ==
    (CHOOSE i \in DOMAIN cache : cache[i].key = key)

\* Variant of the size test that tolerates one entry too many
OverCapacity_late(cache, capacity) == Len(cache) > capacity + 1

\* len(self.cache) > self.capacity, line 80
OverCapacity(cache, capacity) == Len(cache) > capacity

\* history: the cached keys from the least to the most recently accessed
Touch(order, key) == SelectSeq(order, LAMBDA k : k # key) \o <<key>>

Forget(order, key) == SelectSeq(order, LAMBDA k : k # key)

Raised(w) == [w EXCEPT !.pc = "done", !.error = TRUE]

\* Everything but the cache and its threads
restVars ==
    <<now, failure_tracker, consecutive_failures, prefer_realtime,
      hyb_session_active, current_topic, rt, rest_available, call, batch,
      store, procs, sem, backendVars>>

\* a thread calls paragraph_cache.get(key), lines 232 and 274
CacheGet(w, key) ==
    /\ workers[w].pc = "idle"
    /\ workers' = [workers EXCEPT ![w] = [IdleWorker EXCEPT !.pc = "get_contains",
                                                          !.key = key]]
    /\ UNCHANGED <<paragraph_cache, recency, restVars>>

\* if key not in self.cache: return None, lines 71-72
GetContains(w) ==
    /\ workers[w].pc = "get_contains"
    /\ workers' = [workers EXCEPT ![w].pc =
                      IF workers[w].key \in CachedKeys(paragraph_cache.cache)
                      THEN "get_move" ELSE "done"]
    /\ UNCHANGED <<paragraph_cache, recency, restVars>>

\* self.cache.move_to_end(key), line 73: KeyError if the key is gone
GetMove(w) ==
    /\ workers[w].pc = "get_move"
    /\ IF workers[w].key \in CachedKeys(paragraph_cache.cache)
       THEN /\ paragraph_cache' =
                   [paragraph_cache EXCEPT
                       !.cache = move_to_end(@, workers[w].key)]
            /\ recency' = Touch(recency, workers[w].key)
            /\ workers' = [workers EXCEPT ![w].pc = "get_read"]
       ELSE /\ workers' = [workers EXCEPT ![w] = Raised(@)]
            /\ UNCHANGED <<paragraph_cache, recency>>
    /\ UNCHANGED restVars

\* return self.cache[key], line 74
GetRead(w) ==
    /\ workers[w].pc = "get_read"
    /\ workers' =
           IF workers[w].key \in CachedKeys(paragraph_cache.cache)
           THEN [workers EXCEPT
                    ![w].pc = "done",
                    ![w].ret = paragraph_cache.cache[
                                   GetItem(paragraph_cache.cache,
                                           workers[w].key)].value]
           ELSE [workers EXCEPT ![w] = Raised(@)]
    /\ UNCHANGED <<paragraph_cache, recency, restVars>>

\* a thread calls paragraph_cache.put(key, vector), lines 250 and 296
CachePut(w, key) ==
    /\ workers[w].pc = "idle"
    /\ workers' = [workers EXCEPT ![w] = [IdleWorker EXCEPT !.pc = "put_contains",
                                                          !.key = key]]
    /\ UNCHANGED <<paragraph_cache, recency, restVars>>

\* if key in self.cache, line 77
PutContains(w) ==
    /\ workers[w].pc = "put_contains"
    /\ workers' = [workers EXCEPT ![w].pc =
                      IF workers[w].key \in CachedKeys(paragraph_cache.cache)
                      THEN "put_move" ELSE "put_set"]
    /\ UNCHANGED <<paragraph_cache, recency, restVars>>

\* self.cache.move_to_end(key), line 78
PutMove(w) ==
    /\ workers[w].pc = "put_move"
    /\ IF workers[w].key \in CachedKeys(paragraph_cache.cache)
       THEN /\ paragraph_cache' =
                   [paragraph_cache EXCEPT
                       !.cache = move_to_end(@, workers[w].key)]
            /\ workers' = [workers EXCEPT ![w].pc = "put_set"]
       ELSE /\ workers' = [workers EXCEPT ![w] = Raised(@)]
            /\ UNCHANGED paragraph_cache
    /\ UNCHANGED <<recency, restVars>>

\* self.cache[key] = value, line 79
PutSet(w) ==
    /\ workers[w].pc = "put_set"
    /\ paragraph_cache' =
           [paragraph_cache EXCEPT
               !.cache = SetItem(@, workers[w].key, EmbeddingOf(workers[w].key))]
    /\ recency' = Touch(recency, workers[w].key)
    /\ workers' = [workers EXCEPT ![w].pc = "put_len"]
    /\ UNCHANGED restVars

\* if len(self.cache) > self.capacity, line 80
PutLen(w) ==
    /\ workers[w].pc = "put_len"
    /\ workers' = [workers EXCEPT ![w].pc =
                      IF OverCapacity(paragraph_cache.cache,
                                      paragraph_cache.capacity)
                      THEN "put_pop" ELSE "done"]
    /\ UNCHANGED <<paragraph_cache, recency, restVars>>

\* self.cache.popitem(last=False), line 81: KeyError on an empty dictionary
PutPop(w) ==
    /\ workers[w].pc = "put_pop"
    /\ IF paragraph_cache.cache # <<>>
       THEN /\ paragraph_cache' = [paragraph_cache EXCEPT !.cache = Tail(@)]
            /\ recency' = Forget(recency, Head(paragraph_cache.cache).key)
            /\ workers' = [workers EXCEPT
                              ![w].pc = "done",
                              ![w].popped = Head(paragraph_cache.cache).key]
       ELSE /\ workers' = [workers EXCEPT ![w] = Raised(@)]
            /\ UNCHANGED <<paragraph_cache, recency>>
    /\ UNCHANGED restVars

\* get or put has returned or raised
WorkerReturn(w) ==
    /\ workers[w].pc = "done"
    /\ workers' = [workers EXCEPT ![w] = IdleWorker]
    /\ UNCHANGED <<paragraph_cache, recency, restVars>>

WorkerStep(w) ==
    \/ \E key \in CacheKeys : CacheGet(w, key)
    \/ GetContains(w)
    \/ GetMove(w)
    \/ GetRead(w)
    \/ \E key \in CacheKeys : CachePut(w, key)
    \/ PutContains(w)
    \/ PutMove(w)
    \/ PutSet(w)
    \/ PutLen(w)
    \/ PutPop(w)
    \/ WorkerReturn(w)

\* EmbeddingService(cache_size = capacity), lines 26-48
InitCache ==
    /\ InitServices
    /\ kv = LocalStore
    /\ prefer_realtime
    /\ rest_available
    /\ \E capacity \in Capacities : paragraph_cache = EmptyCache(capacity)

\* One thread: every sequence of get and put
NextCache == WorkerStep(1)

SpecCache == InitCache /\ [][NextCache]_vars

\* Two relevance computations at the same time
NextCacheRace == \E w \in WorkerIds : WorkerStep(w)

SpecCacheRace == InitCache /\ [][NextCacheRace]_vars

(***************************************************************************)
(* EmbeddingService: the factory get_embedding_service, the readiness of   *)
(* the model, and the relevance computations of a service that is not      *)
(* ready.  The session is kept in the networked store, which outlives the  *)
(* process.                                                                *)
(***************************************************************************)
MaxLoads == 3

\* EmbeddingService.__init__, lines 26-57: _initialize_model is tried once;
\* if it raises, model stays None and is_ready() is False
NewService(id, load_ok) == [id |-> id, ready |-> load_ok]

\* get_embedding_service, lines 404-418, as a function of the module state
get_embedding_service(e, load_ok) ==
    IF e.singleton = NoService \/ ~e.singleton.ready
    THEN [e EXCEPT !.singleton = NewService(e.loads + 1, load_ok),
                   !.loads = e.loads + 1,
                   !.failed_at_start = IF e.loads = 0 THEN ~load_ok ELSE @]
    ELSE e

\* The outcome of the relevance task of a full analysis, lines 185-188 and
\* 384-387: the whole column is NA when the service is not ready
signal_task(service) == IF service.ready THEN "ok" ELSE "null"

\* analyze_signal_strength_incremental, lines 328-376: the table is returned
\* as it came when the service is not ready, the topic is empty or no index
\* is given; otherwise the rows of changed_indices get their score
analyze_signal_strength_incremental(service, df, topic, changed_indices) ==
    IF ~service.ready \/ topic = "" \/ changed_indices = {} THEN df
    ELSE [i \in DOMAIN df |->
             IF (i - 1) \in changed_indices
             THEN [df[i] EXCEPT !.signal_strength = SignalFor(topic)]
             ELSE df[i]]

\* The metrics analyze_incremental returns, orchestrator.py lines 172-232
incremental_metrics(service, df, topic, paragraph_id, new_text) ==
    LET temp_df == analyze_signal_strength_incremental(
                       service,
                       [df EXCEPT ![paragraph_id + 1].text = new_text],
                       topic, {paragraph_id})
    IN  [readability |-> "r",
         signal_strength |-> temp_df[paragraph_id + 1].signal_strength,
         semantic_function |-> LabelFor(topic)]

\* main.py startup_event, lines 78-108: the service of the application and
\* of its orchestrator is the one the factory returns at startup
Startup(load_ok) ==
    /\ embedding.app = NoService
    /\ embedding.loads = 0
    /\ LET e == get_embedding_service(embedding, load_ok)
       IN  embedding' = [e EXCEPT !.app = e.singleton]
    /\ reply' = NoReply
    /\ UNCHANGED <<upperVars, store, kv>>

\* A request dependency: main.py lines 131-132 and 162 override the factory
\* with app.state.embedding_service
Dependency ==
    /\ embedding.app # NoService
    /\ reply' = [of |-> "dependency", service |-> embedding.app]
    /\ UNCHANGED <<upperVars, store, kv, embedding>>

\* A call of the factory itself after startup
GetEmbeddingService(load_ok) ==
    /\ embedding.app # NoService
    /\ embedding.loads < MaxLoads
    /\ embedding' = get_embedding_service(embedding, load_ok)
    /\ reply' = [of |-> "get_embedding_service",
                 service |-> embedding'.singleton]
    /\ UNCHANGED <<upperVars, store, kv>>

\* analyze_full_text, orchestrator.py lines 130-152, with the service of the
\* orchestrator; the other two tasks deliver
AnalyzeWithService(text, topic) ==
    /\ embedding.app # NoService
    /\ LET o == [AllOk EXCEPT !.signal = signal_task(embedding.app)]
           df == run_analysis_pipeline(split_into_paragraphs(text), topic, o)
       IN  /\ store' = save_analysis(df, topic)
           /\ reply' = [of |-> "analyze_full_text", ready |-> embedding.app.ready,
                        df |-> df]
    /\ UNCHANGED <<upperVars, kv, embedding>>

\* analyze_incremental, orchestrator.py lines 154-232, with the service of
\* the orchestrator
IncrementalWithService(paragraph_id, new_text) ==
    /\ embedding.app # NoService
    /\ LET st == get_analysis(store)
       IN  /\ st.exists
           /\ 0 <= paragraph_id /\ paragraph_id < Len(st.df)
           /\ reply' = [of |-> "analyze_incremental",
                        ready |-> embedding.app.ready,
                        metrics |-> incremental_metrics(embedding.app, st.df,
                                        st.topic, paragraph_id, new_text)]
    /\ UNCHANGED <<upperVars, store, kv, embedding>>

\* The process ends and is started again: the module state is gone, the
\* session written to the networked store is still there
ProcessRestart ==
    /\ embedding.app # NoService
    /\ embedding' = NoEmbedding
    /\ reply' = NoReply
    /\ UNCHANGED <<upperVars, store, kv>>

NextEmbedding ==
    \/ \E load_ok \in BOOLEAN : Startup(load_ok)
    \/ Dependency
    \/ \E load_ok \in BOOLEAN : GetEmbeddingService(load_ok)
    \/ \E text \in Documents, topic \in Topics : AnalyzeWithService(text, topic)
    \/ \E paragraph_id \in 0..1, new_text \in NewTexts :
           IncrementalWithService(paragraph_id, new_text)
    \/ ProcessRestart

SpecEmbedding == InitTracker /\ [][NextEmbedding]_vars

(***************************************************************************)
(* SessionStore with its two back ends: the Redis key of the session and   *)
(* the entry of local_sessions.  redis_up tells whether a Redis command    *)
(* succeeds now (otherwise it raises RedisError).                           *)
(***************************************************************************)
\* SessionStore(redis_url), lines 17-45: the client is kept when ping() succeeds
NetworkedStore == [LocalStore EXCEPT !.redis_client = TRUE, !.redis_up = TRUE]

\* The tables saved: one analysed paragraph
StoredTables ==
    {run_analysis_pipeline(<<text>>, SessionTopic, AllOk) :
         text \in {<<"a">>, <<"b">>}}

\* save_analysis, lines 51-86: set() on Redis; _save_local when there is no
\* client or set() raised
SessionStore_save_analysis(s, df, topic) ==
    IF s.redis_client /\ s.redis_up
    THEN [s EXCEPT !.redis = save_analysis(df, topic)]
    ELSE [s EXCEPT !.local_sessions = save_analysis(df, topic)]

Found(entry) == [found |-> "found", df |-> entry.df, topic |-> entry.topic]

NotFound == [found |-> "not_found"]

\* exists() of line 118 is outside every try
RaisedRedisError == [found |-> "raised"]

\* get_analysis, lines 90-151.  up_at_exists: whether the exists() of
\* line 118 succeeds after the get() of line 104 raised
SessionStore_get_analysis(s, up_at_exists) ==
    IF s.redis_client /\ s.redis_up
    THEN IF s.redis.exists THEN Found(get_analysis(s.redis)) ELSE NotFound
    ELSE IF s.redis_client /\ ~up_at_exists THEN RaisedRedisError
    ELSE IF s.redis_client /\ s.redis.exists THEN NotFound
    ELSE IF s.local_sessions.exists THEN Found(get_analysis(s.local_sessions))
    ELSE NotFound

\* delete_analysis, lines 153-178: delete() on Redis, its error only logged,
\* then the entry of local_sessions
SessionStore_delete_analysis(s) ==
    [s EXCEPT !.redis = IF s.redis_client /\ s.redis_up THEN NoSession ELSE @,
              !.local_sessions = NoSession]

StoreSave(df, topic) ==
    /\ kv' = [SessionStore_save_analysis(kv, df, topic)
                 EXCEPT !.written = save_analysis(df, topic)]
    /\ reply' = [of |-> "save_analysis"]
    /\ UNCHANGED <<upperVars, store, embedding>>

StoreGet(up_at_exists) ==
    /\ ~kv.redis_client \/ kv.redis_up => ~up_at_exists
    /\ reply' = [of |-> "get_analysis",
                 result |-> SessionStore_get_analysis(kv, up_at_exists)]
    /\ kv' = [kv EXCEPT !.redis_up = @ \/ up_at_exists]
    /\ UNCHANGED <<upperVars, store, embedding>>

StoreDelete ==
    /\ kv' = [SessionStore_delete_analysis(kv) EXCEPT !.written = NoSession]
    /\ reply' = [of |-> "delete_analysis"]
    /\ UNCHANGED <<upperVars, store, embedding>>

\* The Redis server or the network to it fails or comes back
RedisToggle ==
    /\ kv.redis_client
    /\ kv' = [kv EXCEPT !.redis_up = ~@]
    /\ UNCHANGED <<upperVars, store, embedding, reply>>

InitStore ==
    /\ InitServices
    /\ paragraph_cache = EmptyCache(MaxCapacity)
    /\ prefer_realtime
    /\ rest_available
    /\ kv \in {LocalStore, NetworkedStore}

NextStore ==
    \/ \E df \in StoredTables, topic \in Topics : StoreSave(df, topic)
    \/ \E up_at_exists \in BOOLEAN : StoreGet(up_at_exists)
    \/ StoreDelete
    \/ RedisToggle

SpecStore == InitStore /\ [][NextStore]_vars

(***************************************************************************)
(* The two response parsers.  A response is the sequence of its items, the *)
(* texts between the separators; the items are non-empty, hold no "/" and  *)
(* none is the end of another.  L1, L2, L3 stand for three labels of       *)
(* API_LABELS in the order of that list, L1 the first of the list.         *)
(***************************************************************************)
MaxItems == 4

API_LABELS == <<"L1", "L2", "L3">>

\* l2: L2 in another case; p3: a text that holds L3 and is no label;
\* x: a text that shares nothing with a label
ResponseItems == {"L1", "L2", "L3", "l2", "p3", "x"}

\* label_candidate.lower().strip()
Lowered(item) == IF item = "l2" THEN "L2" ELSE item

\* part in whole, on lowered texts; the empty text is in every text
IsIn(part, whole) ==
    part = "" \/ part = whole \/ (part = "L3" /\ whole = "p3")

\* lines 519-526 and 87-90: the label whose lower case is the item's
exact_match(item) ==
    IF \E k \in DOMAIN API_LABELS : Lowered(API_LABELS[k]) = Lowered(item)
    THEN API_LABELS[CHOOSE k \in DOMAIN API_LABELS :
                        Lowered(API_LABELS[k]) = Lowered(item)]
    ELSE Null

\* lines 527-535: the first label of API_LABELS that holds the item or is
\* held by it
partial_match(item) ==
    LET hits == {k \in DOMAIN API_LABELS :
                    \/ IsIn(Lowered(item), Lowered(API_LABELS[k]))
                    \/ IsIn(Lowered(API_LABELS[k]), Lowered(item))}
    IN  IF hits = {} THEN Null
        ELSE API_LABELS[CHOOSE k \in hits : \A h \in hits : k <= h]

matched_label(item) ==
    IF exact_match(item) # Null THEN exact_match(item) ELSE partial_match(item)

\* re.sub of lines 496-497: an item repeated right after itself is dropped
collapse_repeats(items) ==
    RowsWhere(items, {i \in DOMAIN items : i = 1 \/ items[i] # items[i - 1]})

\* lines 499-511: the items of the response; the empty response is one
\* empty item
potential_labels(response) ==
    IF response = <<>> THEN <<"">> ELSE collapse_repeats(response)

RECURSIVE valid_labels(_, _)
\* lines 513-535: the labels of the first i items, each label once
valid_labels(items, i) ==
    IF i = 0 THEN <<>>
    ELSE LET seen == valid_labels(items, i - 1)
             label == matched_label(items[i])
         IN  IF label # Null /\ label \notin Range(seen)
             THEN Append(seen, label)
             ELSE seen

\* Variant of the cap that keeps every label
first_two_uncut(labels) == labels

\* valid_labels[:2], lines 539-541
first_two(labels) == SubSeq(labels, 1, Min(2, Len(labels)))

\* " / ".join(labels) as the sequence of the labels joined
Parsed(labels) == [error |-> FALSE, labels |-> labels]

ParsingError == [error |-> TRUE, labels |-> <<>>]

\* _parse_single_chunk_response, lines 480-549
parse_single_chunk_response(response) ==
    LET items == potential_labels(response)
        valid == valid_labels(items, Len(items))
    IN  IF valid # <<>> THEN Parsed(first_two(valid)) ELSE ParsingError

\* The items of a response line that the batch parser can meet
LineItems == {"L1", "L2", "L3", "x"}

\* lines 77-93: every item that is a label, in the order of the line
line_labels(items) ==
    LET hits == RowsWhere(items, {i \in DOMAIN items :
                                      exact_match(items[i]) # Null})
    IN  [i \in DOMAIN hits |-> exact_match(hits[i])]

\* _parse_gpt_response, lines 62-115.  A line is "num. item / item ...";
\* the entry of a number is that of its last line with a label
parse_gpt_response(lines, expected_count) ==
    [n \in 1..expected_count |->
        LET mine == {j \in DOMAIN lines :
                        lines[j].num = n /\ line_labels(lines[j].items) # <<>>}
        IN  IF mine = {} THEN ParsingError
            ELSE Parsed(line_labels(
                     lines[CHOOSE j \in mine : \A h \in mine : h <= j].items))]

ItemLists(items) == UNION {[1..n -> items] : n \in 1..MaxItems}

\* a response of the stream or of the single-chunk call is parsed
ParseSingle(response) ==
    /\ reply = NoReply
    /\ reply' = [of |-> "_parse_single_chunk_response", response |-> response,
                 result |-> parse_single_chunk_response(response)]
    /\ UNCHANGED <<upperVars, store, kv, embedding>>

\* a response of the batch channel is parsed: one line, or a line and one
\* more line for paragraph 1
ParseBatch(line, more, expected_count) ==
    /\ reply = NoReply
    /\ LET lines == <<line>> \o more
       IN  reply' = [of |-> "_parse_gpt_response", lines |-> lines,
                     result |-> parse_gpt_response(lines, expected_count)]
    /\ UNCHANGED <<upperVars, store, kv, embedding>>

\* the caller takes the labels
ParseReturn ==
    /\ reply # NoReply
    /\ reply' = NoReply
    /\ UNCHANGED <<upperVars, store, kv, embedding>>

NextParser ==
    \/ \E response \in {<<>>} \cup ItemLists(ResponseItems) :
           ParseSingle(response)
    \/ \E num \in 1..2, items \in ItemLists(LineItems),
          more \in {<<>>, <<[num |-> 1, items |-> <<"x">>]>>,
                    <<[num |-> 1, items |-> <<"L2">>]>>},
          expected_count \in 1..2 :
           ParseBatch([num |-> num, items |-> items], more, expected_count)
    \/ ParseReturn

SpecParser == InitTracker /\ [][NextParser]_vars

(***************************************************************************)
(* SemanticRealtimeAnalyzer used on its own: analyze_batch over one        *)
(* connection, the inbound events tagged with the request they answer      *)
(***************************************************************************)
\* What the server sends for one request: nothing, response.text.done alone,
\* response.text.done followed by response.done, or an error event
ServerScripts ==
    {<<>>, <<"text">>, <<"text", "text">>, <<"error">>}

\* The events of a script, each tagged with the request it answers
Tagged(script, req) == [i \in DOMAIN script |-> [type |-> script[i], for |-> req]]

\* Everything but the analyzer and its caller
streamRest ==
    <<now, failure_tracker, consecutive_failures, prefer_realtime,
      hyb_session_active, current_topic, rest_available, call, batch, store,
      procs, sem, paragraph_cache, workers, recency, embedding, kv, reply>>

\* Lines 215-217 with the loop stopping after the first future
reject_oldest(p) ==
    [i \in DOMAIN p |->
        IF \A j \in 1..(i - 1) : p[j].done THEN [p[i] EXCEPT !.done = TRUE]
        ELSE p[i]]

\* Lines 215-217: set_exception on every future that is not done; the
\* entries stay in the dict
reject_all(p) == [i \in DOMAIN p |-> [p[i] EXCEPT !.done = TRUE]]

\* Lines 255-257 without the pop
keep_first(p) == p

\* Lines 255-257: the first key of the dict is popped
pop_first(p) == Tail(p)

\* Line 168 left out
on_timeout_keep(p, id) == p

\* Line 168: pending_requests.pop(chunk_id, None)
on_timeout(p, id) == DictPop(p, id)

\* The future registered under the key is there and not done
Waiting(p, id) == HasKey(p, id) /\ ~p[KeyIndex(p, id)].done

\* One entry of the list analyze_batch returns; req and answer are history:
\* the request of the entry and the request the event answered
StreamResult(id, sf, req, answer) ==
    [chunk_id |-> id, semantic_function |-> sf, req |-> req, answer |-> answer]

\* initialize_session, lines 73-122, on an analyzer without a socket:
\* connect() opens a new connection and starts a new _message_handler;
\* pending_requests is the dict made by __init__
InitializeSession ==
    /\ stream.pc = "idle"
    /\ ~rt.websocket
    /\ rt' = [ConnectedAnalyzer("t1") EXCEPT
                 !.pending_requests = rt.pending_requests]
    /\ stream' = [stream EXCEPT !.wire = <<>>]
    /\ UNCHANGED streamRest

\* close(), lines 283-289
StreamClose ==
    /\ stream.pc = "idle"
    /\ rt.websocket
    /\ rt' = rt_close(rt)
    /\ stream' = [stream EXCEPT !.wire = <<>>]
    /\ UNCHANGED streamRest

\* analyze_batch, lines 176-178
StreamBatchStart(n) ==
    /\ stream.pc = "idle"
    /\ rt.exists
    /\ stream' = [stream EXCEPT !.pc = "loop", !.chunks = ChunkList(n),
                                !.results = <<>>]
    /\ UNCHANGED <<rt, streamRest>>

\* analyze_batch, lines 180-184 and 190-197, with analyze_chunk up to the
\* wait, lines 124-159: an exception of analyze_chunk becomes an
\* error_api_call entry
StreamAnalyzeChunk ==
    /\ stream.pc = "loop"
    /\ Len(stream.results) < Len(stream.chunks)
    /\ LET id == stream.chunks[Len(stream.results) + 1]
           req == stream.requests + 1
           failed == [stream EXCEPT
                         !.results = Append(@, StreamResult(id, "error_api_call", 0, 0))]
       IN  IF ~rt.websocket \/ ~rt.session_active
           THEN /\ stream' = failed
                /\ UNCHANGED rt
           ELSE /\ stream.requests < MaxRequests
                /\ rt' = [rt EXCEPT !.pending_requests = DictSet(@, id)]
                /\ IF ~rt.conn_open
                   THEN stream' = [failed EXCEPT !.requests = req,
                                                 !.owner[id] = req]
                   ELSE \E script \in ServerScripts :
                           stream' = [stream EXCEPT
                               !.pc = "await", !.chunk_id = id, !.req = req,
                               !.fut = "waiting", !.answer = 0,
                               !.requests = req, !.owner[id] = req,
                               !.sent = @ \cup {req},
                               !.wire = @ \o Tagged(script, req)]
    /\ UNCHANGED streamRest

\* _message_handler, lines 203-273: the next inbound event
StreamDeliver ==
    /\ rt.conn_open /\ rt.handler_alive
    /\ stream.wire # <<>>
    /\ LET ev == Head(stream.wire)
           p == rt.pending_requests
           awaited == stream.pc = "await" /\ stream.fut = "waiting"
       IN  IF ev.type = "error"
           THEN /\ rt' = [rt EXCEPT !.pending_requests = reject_all(p)]
                /\ stream' = [stream EXCEPT
                       !.wire = Tail(@),
                       !.fut = IF awaited /\ ~Waiting(reject_all(p), stream.chunk_id)
                               THEN "exception" ELSE @,
                       !.answer = IF awaited /\ ~Waiting(reject_all(p), stream.chunk_id)
                                  THEN ev.for ELSE @]
           ELSE IF p # <<>>
                THEN /\ rt' = [rt EXCEPT !.pending_requests = pop_first(p)]
                     /\ stream' = [stream EXCEPT
                            !.wire = Tail(@),
                            !.fut = IF awaited /\ ~Head(p).done
                                       /\ Head(p).chunk_id = stream.chunk_id
                                    THEN "result" ELSE @,
                            !.answer = IF awaited /\ ~Head(p).done
                                          /\ Head(p).chunk_id = stream.chunk_id
                                       THEN ev.for ELSE @]
                ELSE /\ stream' = [stream EXCEPT !.wire = Tail(@)]
                     /\ UNCHANGED rt
    /\ UNCHANGED streamRest

\* wait_for returns the result or raises the exception of the future, lines
\* 161-163; analyze_batch appends, lines 185 and 190-197
StreamResume ==
    /\ stream.pc = "await" /\ stream.fut \in {"result", "exception"}
    /\ stream' = [stream EXCEPT
           !.pc = "loop", !.fut = "none",
           !.completed = @ \cup {stream.req},
           !.results = Append(@, StreamResult(stream.chunk_id,
                           IF stream.fut = "result" THEN "label" ELSE "error_api_call",
                           stream.req, stream.answer))]
    /\ UNCHANGED <<rt, streamRest>>

\* asyncio.TimeoutError after 15 s, lines 164-174
StreamTimeout ==
    /\ stream.pc = "await" /\ stream.fut = "waiting"
    /\ rt' = [rt EXCEPT !.pending_requests = on_timeout(@, stream.chunk_id)]
    /\ stream' = [stream EXCEPT
           !.pc = "loop", !.fut = "none",
           !.completed = @ \cup {stream.req},
           !.results = Append(@, StreamResult(stream.chunk_id, TimeoutSentinel,
                                              stream.req, 0))]
    /\ UNCHANGED streamRest

\* analyze_batch, line 199
StreamBatchReturn ==
    /\ stream.pc = "loop"
    /\ Len(stream.results) = Len(stream.chunks)
    /\ stream' = [stream EXCEPT !.pc = "idle", !.chunks = <<>>, !.results = <<>>]
    /\ UNCHANGED <<rt, streamRest>>

NextStream ==
    \/ InitializeSession
    \/ StreamClose
    \/ \E n \in 1..MaxStreamChunks : StreamBatchStart(n)
    \/ StreamAnalyzeChunk
    \/ StreamDeliver
    \/ StreamResume
    \/ StreamTimeout
    \/ StreamBatchReturn
    \/ \E clean \in BOOLEAN : ConnectionClosed(clean)

SpecStream == InitTracker /\ [][NextStream]_vars

\* wait_for resumes the caller when the future is done and raises
\* TimeoutError when the 15 s are over
SpecStreamFair ==
    SpecStream /\ WF_vars(StreamResume) /\ WF_vars(StreamTimeout)

(***************************************************************************)
(* analyze_batch over long chunk lists                                     *)
(***************************************************************************)
MaxFanoutChunks == 24   \* longest chunk list of the fan-out specification

\* Short lists, and every fourth length above the adaptive threshold
FanoutSizes ==
    {n \in 1..MaxFanoutChunks :
        n <= MaxSeqChunks \/ (n > AdaptiveMinChunks /\ n % RealtimeHeadDivisor = 0)}

NextFanout ==
    \/ \E n \in FanoutSizes, adaptive \in BOOLEAN : BatchStart(n, "t1", adaptive)
    \/ BatchNextChunk
    \/ BatchCollect
    \/ BatchFinish
    \/ BatchReturn
    \/ EnsureSession
    \/ SendRequest
    \/ \E kind \in TextKinds : HandlerText(kind)
    \/ \E msg \in ServerErrorMessages : HandlerError(msg)
    \/ \E clean \in BOOLEAN : ConnectionClosed(clean)
    \/ Resume
    \/ Timeout
    \/ RestRequest

SpecFanout == InitTracker /\ [][NextFanout]_vars

(***************************************************************************)
(* analyze_semantic_function_batch with requests that fail, return no      *)
(* content, or return a response with a line missing                       *)
(***************************************************************************)
\* How the request of one group ends
GroupOutcomes == {"ok", "failed", "no_content"}

\* Paragraph counts planned as one group and as two
GroupCounts == {1, 2, 3, 14, 15}

\* The response text of a group: "k. L1" for every paragraph k of the group
\* but the missing one (0: none is missing)
ResponseLines(chunk, missing) ==
    LET all == [k \in DOMAIN chunk |-> [num |-> k, items |-> <<"L1">>]]
    IN  RowsWhere(all, {k \in DOMAIN chunk : k # missing})

\* One row of temp_chunk_results_df
GroupRow(index, sf, label_of, error) ==
    [index |-> index, semantic_function |-> sf, label_of |-> label_of,
     semantic_error |-> error]

\* Variant that hands the labels out in the order of the response lines
GroupResultsByPosition(chunk, outcome, missing) ==
    LET lines == ResponseLines(chunk, missing)
    IN  [k \in DOMAIN chunk |->
            IF outcome = "ok" /\ k <= Len(lines)
            THEN GroupRow(chunk[k], "label", chunk[lines[k].num], Null)
            ELSE GroupRow(chunk[k], "error_api_call", Null, "UnexpectedError")]

\* temp_chunk_results_df of one group, lines 233-298: the default rows of
\* lines 235-237 with the error string of the branch taken, or the labels of
\* _parse_gpt_response, "parsing_error" rows carrying the error of line 280
GroupResults(chunk, outcome, missing) ==
    LET labels == parse_gpt_response(ResponseLines(chunk, missing), Len(chunk))
    IN  [k \in DOMAIN chunk |->
            CASE outcome = "failed" ->
                     GroupRow(chunk[k], "error_api_call", Null, "UnexpectedError")
              [] outcome = "no_content" ->
                     GroupRow(chunk[k], "error_api_call", Null,
                              "API did not return content")
              [] OTHER ->
                     IF labels[k] = ParsingError
                     THEN GroupRow(chunk[k], "parsing_error", Null,
                                   "Failed to parse API response for paragraph")
                     ELSE GroupRow(chunk[k], "label", chunk[k], Null)]

\* history: how the requests of the call in flight ended
GroupHistory(outcomes) == [of |-> "groups", outcomes |-> outcomes]

\* lines 222-298: the request of the next group and its answer
GroupAnswer(outcome, missing) ==
    /\ sem.pc = "chunks"
    /\ sem.next <= Len(sem.chunks)
    /\ missing <= Len(sem.chunks[sem.next])
    /\ outcome # "ok" => missing = 0
    /\ sem' = [sem EXCEPT
                  !.processed = Append(@, GroupResults(sem.chunks[sem.next],
                                                       outcome, missing)),
                  !.next = @ + 1]
    /\ reply' = GroupHistory(
                    (IF reply = NoReply THEN <<>> ELSE reply.outcomes)
                        \o <<[outcome |-> outcome, missing |-> missing]>>)
    /\ UNCHANGED <<analyzerVars, store, procs, paragraph_cache, workers, recency,
                   embedding, kv, stream>>

\* The caller has the table
GroupsReturn ==
    /\ sem.pc = "done"
    /\ sem' = IdleSemantic
    /\ reply' = NoReply
    /\ UNCHANGED <<analyzerVars, store, procs, paragraph_cache, workers, recency,
                   embedding, kv, stream>>

NextGroups ==
    \/ \E n \in GroupCounts : SemanticBatchStart(n)
    \/ \E outcome \in GroupOutcomes, missing \in 0..MaxBatchParas :
          GroupAnswer(outcome, missing)
    \/ SemanticBatchCombine
    \/ GroupsReturn

SpecGroups == InitPlanner /\ [][NextGroups]_vars

(***************************************************************************)
(* get_statistics next to the calls of one client                          *)
(***************************************************************************)
\* The dict get_statistics returns
Statistics(available, tr, active, topic) ==
    [of |-> "get_statistics", realtime_available |-> available,
     realtime_failures |-> tr.realtime_failures,
     realtime_successes |-> tr.realtime_successes,
     last_failure |-> tr.last_failure_time,
     session_active |-> active, current_topic |-> topic]

\* get_statistics, lines 307-316: the dict is built entry by entry, the
\* call of should_use_realtime first
GetStatistics ==
    /\ reply = NoReply
    /\ LET d == should_use_realtime(failure_tracker, now)
       IN  /\ failure_tracker' = d.tr
           /\ reply' = Statistics(d.ret, d.tr, hyb_session_active, current_topic)
    /\ UNCHANGED <<now, prefer_realtime, hyb_session_active, current_topic, rt,
                   rest_available, call, batch, store, procs, sem,
                   paragraph_cache, workers, recency, embedding, kv, stream>>
    /\ Observe

\* The caller has the dict
StatisticsReturn ==
    /\ reply # NoReply
    /\ reply' = NoReply
    /\ UNCHANGED <<upperVars, store, kv, embedding>>

\* get_statistics awaits nothing: it runs between two steps of the calls
NextStatistics ==
    \/ reply = NoReply /\ NextTracker
    \/ GetStatistics
    \/ StatisticsReturn

SpecStatistics == InitTracker /\ [][NextStatistics]_vars

(***************************************************************************)
(* Properties of the failure tracker and of analyze_chunk                  *)
(***************************************************************************)

\* C1: after should_use_realtime has re-opened the stream (recovery timeout
\* elapsed, counters reset), one failed stream attempt closes it again: the
\* next should_use_realtime() returns false.
C1_ProbeFailureClosesAgain ==
    (/\ call.pc \in {"rest", "done"}
     /\ call.force = "none"
     /\ call.reopened
     /\ call.failures_recorded = 1)
    => ~should_use_realtime(failure_tracker, now).ret

\* C2: after failure_threshold record_failure calls in a row, the last of them
\* no more than recovery_timeout ago, should_use_realtime() returns false, and
\* an analyze_chunk call without force_method started then uses the batch
\* channel and never the stream.
C2_FailoverTrigger ==
    /\ Tripped => ~should_use_realtime(failure_tracker, now).ret
    /\ (call.pc # "idle" /\ call.force = "none" /\ call.tripped)
       => /\ ~call.use_realtime
          /\ ~call.stream_sent
          /\ call.stream_error = "none"
          /\ call.pc \in {"rest", "done"}
          /\ call.pc = "done" => /\ call.outcome = "returned"
                                 /\ call.result.api_method = "rest"
                                 /\ call.rest_requests = 1

C2_Witness ==
    /\ call.pc = "done" /\ call.force = "none" /\ call.tripped
    /\ call.result.api_method = "rest"
    /\ prefer_realtime

\* C3: a stream attempt that fails because the connection was closed, because
\* of a concurrent-response conflict or because of a timeout ends with the
\* batch channel's result, tagged "rest", and does not raise.
C3_FatalErrorsFallBack ==
    (call.pc = "done" /\ call.stream_error \in {"closed", "conflict", "timeout"})
    => /\ call.outcome = "returned"
       /\ call.result.api_method = "rest"

\* C4: a stream failure whose error is not fallback-eligible is raised to the
\* caller with that error, after exactly one recorded failure and without any
\* batch-channel request.
C4_OtherErrorsPropagate ==
    (/\ call.pc \in {"rest", "done"}
     /\ call.failures_recorded > 0
     /\ ~_should_fallback(call.error))
    => /\ call.pc = "done"
       /\ call.outcome = "raised"
       /\ call.failures_recorded = 1
       /\ call.rest_requests = 0
       /\ call.result = NoResult
       /\ failure_tracker.realtime_failures = call.failures_before + 1

C4_Witness ==
    /\ call.pc = "done" /\ call.outcome = "raised"
    /\ call.stream_error = "bad_result"
    /\ call.error = MsgResultError("Failed to parse response")

\* C5: when the batch channel does not classify the chunk either, analyze_chunk
\* returns the sentinel: semantic_function null, api_method "failed".
C5_BatchFailureSentinel ==
    (call.pc = "done" /\ call.rest_requests > 0 /\ call.rest_failed)
    => /\ call.outcome = "returned"
       /\ call.result.semantic_function = Null
       /\ call.result.api_method = "failed"

\* C7: a stream request that times out resolves to the label "error_timeout",
\* and the analyze_chunk call around it adds exactly one to realtime_failures.
C7_TimeoutCountsOnce ==
    call.timed_out
    => /\ call.res_sf = "error_timeout"
       /\ call.stream_error = "timeout"
       /\ call.failures_recorded = 1
       /\ call.successes_recorded = 0
       /\ failure_tracker.realtime_failures = call.failures_before + 1

C7_Witness ==
    /\ call.pc = "done" /\ call.timed_out
    /\ call.result.api_method = "rest"

\* C6: analyze_batch returns one result per input chunk, in input order, for
\* every pattern of stream and batch failures; no failure of a chunk aborts it.
C6_OneResultPerChunk ==
    batch.pc = "done"
    => /\ batch.outcome = "returned"
       /\ Len(batch.results) = Len(batch.chunks)
       /\ \A i \in DOMAIN batch.chunks : batch.results[i].chunk_id = batch.chunks[i]

(***************************************************************************)
(* Properties of the orchestrator's session edits                          *)
(***************************************************************************)
\* The table that results from running one request to its end and then the
\* other, from the table both read
SerialResult(first, second) ==
    Apply(second.req,
          Apply(first.req, first.read.df, first.read.topic, first.o).df,
          first.read.topic, second.o).df

\* C8: when two structural edits of one session overlap in time, the table
\* finally stored is the one that running them one after the other, in one
\* of the two orders, would have stored
C8_NoLostUpdates ==
    (/\ \A p \in ProcIds : /\ procs[p].pc = "done"
                           /\ procs[p].outcome = "saved"
                           /\ procs[p].req.op \in StructuralOps
                           /\ procs[p].overlapped
     /\ procs[1].read = procs[2].read)
    => store.df \in {SerialResult(procs[1], procs[2]),
                     SerialResult(procs[2], procs[1])}

LabelsNull(row) ==
    /\ row.semantic_function = Null
    /\ row.semantic_method = Null
    /\ row.semantic_error = Null

\* C9: once a structural edit has succeeded, the three label fields of every
\* paragraph of the stored session are null
C9_LabelsNullAfterEdit ==
    (/\ procs[1].pc = "done"
     /\ procs[1].outcome = "saved"
     /\ procs[1].req.op \in StructuralOps)
    => \A i \in DOMAIN store.df : LabelsNull(store.df[i])

\* C10: the paragraph ids of every stored table are 0..n-1 in table order
C10_DenseIds ==
    store.exists => \A i \in DOMAIN store.df : store.df[i].paragraph_id = i - 1

\* The first of two paragraphs has been deleted and the other one stored
C10_Witness ==
    /\ procs[1].pc = "done"
    /\ procs[1].outcome = "saved"
    /\ procs[1].req.op = "delete"
    /\ procs[1].req.id1 = 0
    /\ Len(procs[1].read.df) = 2
    /\ Len(store.df) = 1

\* The fields of a row that an edit of another paragraph must leave alone
Kept(row) == <<row.text, row.readability, row.signal_strength>>

KeptOf(df, positions) ==
    LET rows == RowsWhere(df, positions)
    IN  [i \in DOMAIN rows |-> Kept(rows[i])]

\* The rows of the table read and of the table stored that request r did not
\* touch carry the same text, readability and relevance, in the same order
UntouchedKept(r, old, new) ==
    CASE r.op = "merge" ->
             LET idx1 == Min(r.id1, r.id2)
                 idx2 == Max(r.id1, r.id2)
             IN  KeptOf(old, DOMAIN old \ {idx1 + 1, idx2 + 1})
                 = KeptOf(new, DOMAIN new \ {idx1 + 1})
      [] r.op = "split" ->
             KeptOf(old, DOMAIN old \ {r.id1 + 1})
             = KeptOf(new, DOMAIN new \ {r.id1 + 1, r.id1 + 2})
      [] r.op = "delete" \/ (r.op = "update_text" /\ strip(r.text) = <<>>) ->
             KeptOf(old, DOMAIN old \ {r.id1 + 1}) = KeptOf(new, DOMAIN new)
      [] r.op = "update_text" /\ strip(r.text) # <<>> ->
             LET k == Len(split_into_paragraphs(strip(r.text)))
             IN  KeptOf(old, DOMAIN old \ {r.id1 + 1})
                 = KeptOf(new, DOMAIN new \ ((r.id1 + 1)..(r.id1 + k)))
      [] r.op = "reorder" ->
             /\ Len(new) = Len(r.order)
             /\ \A i \in DOMAIN new : Kept(new[i]) = Kept(old[r.order[i] + 1])
      [] OTHER -> TRUE

PreviewStepOf(p) ==
    \/ procs[p].pc = "idle" /\ procs'[p].pc # "idle" /\ procs'[p].req.op \in PreviewOps
    \/ procs[p].pc = "await" /\ procs[p].req.op \in PreviewOps /\ procs'[p].pc = "done"

\* C12: no step of analyze_incremental, calculate_paragraph_metrics or
\* calculate_text_metrics changes the stored table or topic of the session,
\* whatever the input and however the analysis ends
C12_PreviewKeepsStore ==
    [][(\E p \in ProcIds : PreviewStepOf(p)) => store' = store]_vars

\* analyze_incremental has returned metrics for a new text of paragraph 0 of a
\* stored session, which still holds the old text
C12_Witness ==
    /\ procs[1].pc = "done"
    /\ procs[1].req.op = "analyze_incremental"
    /\ procs[1].outcome = "metrics"
    /\ procs[1].req.id1 = 0
    /\ store.exists
    /\ Len(store.df) > 0
    /\ store.df[1].text # procs[1].req.text

\* C13: when the label task of a full analysis fails, the table still has one
\* row per paragraph, in order, and each row carries the readability and the
\* relevance that the other two tasks delivered
C13_LabelFailureIsolated ==
    (/\ procs[1].pc = "done"
     /\ procs[1].req.op = "analyze_full_text"
     /\ procs[1].outcome = "saved"
     /\ procs[1].o.semantic = "failed")
    => LET paragraphs == split_into_paragraphs(procs[1].req.text)
       IN  /\ Len(store.df) = Len(paragraphs)
           /\ \A i \in DOMAIN store.df :
                 /\ store.df[i].text = paragraphs[i]
                 /\ store.df[i].semantic_function = Null
                 /\ store.df[i].readability # Null <=> procs[1].o.readability = "ok"
                 /\ store.df[i].signal_strength # Null <=> procs[1].o.signal = "ok"

\* A two-paragraph document analysed with the label task failing and both
\* other tasks delivering
C13_Witness ==
    /\ procs[1].pc = "done"
    /\ procs[1].req.op = "analyze_full_text"
    /\ procs[1].outcome = "saved"
    /\ procs[1].o = [readability |-> "ok", signal |-> "ok", semantic |-> "failed"]
    /\ Len(store.df) = 2
    /\ store.df[2].readability # Null
    /\ store.df[2].signal_strength # Null

\* C14: update_topic on an existing session leaves the id, the text and the
\* readability of every paragraph unchanged, and once it has completed the
\* stored session has the new topic and every relevance and label value in it
\* is one computed for the new topic or a null / unavailable marker.
C14_TopicChangeFrame ==
    (/\ procs[1].pc = "done" /\ procs[1].req.op = "update_topic"
     /\ procs[1].outcome = "saved")
    => LET old == procs[1].read.df
           new_topic == procs[1].req.topic
       IN  /\ store.exists /\ store.topic = new_topic
           /\ Len(store.df) = Len(old)
           /\ \A i \in DOMAIN old :
                 /\ store.df[i].paragraph_id = old[i].paragraph_id
                 /\ store.df[i].text = old[i].text
                 /\ store.df[i].readability = old[i].readability
                 /\ store.df[i].signal_strength \in {SignalFor(new_topic), Null}
                 /\ store.df[i].semantic_function
                        \in {LabelFor(new_topic), "unavailable_api", Null}

C14_Witness ==
    /\ procs[1].pc = "done" /\ procs[1].req.op = "update_topic"
    /\ procs[1].outcome = "saved"
    /\ procs[1].read.topic = "t1" /\ procs[1].req.topic = "t2"
    /\ Len(procs[1].read.df) = 2
    /\ procs[1].read.df[2].signal_strength = SignalFor("t1")
    /\ procs[1].read.df[2].semantic_function = LabelFor("t1")
    /\ procs[1].read.df[2].readability = "r"
    /\ store.df[2].signal_strength = SignalFor("t2")
    /\ store.df[2].semantic_function = LabelFor("t2")

\* The arguments of a request that the session it read does not admit
InvalidRequest(req, st) ==
    \/ ~st.exists
    \/ /\ req.op = "merge"
       /\ {req.id1, req.id2} \ (0..(Len(st.df) - 1)) # {}
    \/ /\ req.op = "split"
       /\ \/ req.id1 \notin 0..(Len(st.df) - 1)
          \/ req.id2 \notin 1..(Len(st.df[req.id1 + 1].text) - 1)
    \/ /\ req.op = "reorder"
       /\ Range(req.order) # Ids(st.df)
    \/ /\ req.op = "delete"
       /\ req.id1 \notin 0..(Len(st.df) - 1)

\* C15: merge_paragraphs, split_paragraph, reorder_paragraphs, update_topic
\* and delete_paragraph_from_session called with an unknown session, an
\* out-of-range paragraph id, a split position outside (0, len(text)) or a
\* new_order whose id set differs from the session's end with the failure
\* the code reports on purpose (None or HTTP 404) and the store as it was.
C15_ErrorsExplicit ==
    (/\ procs[1].pc = "done"
     /\ procs[1].req.op \in {"merge", "split", "reorder", "update_topic", "delete"}
     /\ InvalidRequest(procs[1].req, procs[1].read))
    => /\ procs[1].outcome \in {"not_found", "rejected"}
       /\ store = procs[1].read

\* The chunks are runs of consecutive indices that follow one another from
\* 0 to n - 1: read in chunk order they are 0, 1, ..., n - 1
ChunksInOrder(chunks, n) ==
    /\ chunks[1][1] = 0
    /\ \A c \in DOMAIN chunks :
          /\ \A k \in 1..(Len(chunks[c]) - 1) : chunks[c][k + 1] = chunks[c][k] + 1
          /\ c < Len(chunks)
             => chunks[c + 1][1] = chunks[c][Len(chunks[c])] + 1
    /\ chunks[Len(chunks)][Len(chunks[Len(chunks)])] = n - 1

\* C16: for every paragraph count the chunks planned are contiguous runs that
\* together hold every index 0..N-1 exactly once and in order, each chunk has
\* between 1 and max_paragraphs_per_chunk items, and row i of the combined
\* output carries the label computed for paragraph i.
C16_PlanIsPartition ==
    /\ (sem.pc \in {"chunks", "done"} /\ sem.chunks # <<>>)
       => /\ \A c \in DOMAIN sem.chunks :
                /\ Len(sem.chunks[c]) >= 1
                /\ Len(sem.chunks[c]) <= max_paragraphs_per_chunk(sem.n)
          /\ ChunksInOrder(sem.chunks, sem.n)
    /\ (sem.pc = "done" /\ sem.chunks # <<>>)
       => /\ Len(sem.result) = sem.n
          /\ \A i \in DOMAIN sem.result :
                /\ sem.result[i].index = i - 1
                /\ sem.result[i].text = i - 1
                /\ sem.result[i].label_of = i - 1

C16_Witness ==
    /\ sem.pc = "done"
    /\ sem.n = 14
    /\ Len(sem.chunks) = 2
    /\ Len(sem.chunks[1]) = 12
    /\ sem.chunks[2] = <<12, 13>>
    /\ sem.result[14].label_of = 13

\* overhead plus the content and response estimates of the paragraphs of a
\* chunk
EstimatedTokens(chunk) ==
    PROMPT_OVERHEAD_TOKENS
    + Len(chunk) * (TOKENS_PER_PARAGRAPH_CONTENT_ESTIMATE
                    + TOKENS_PER_PARAGRAPH_RESPONSE_ESTIMATE)

\* C17: for every paragraph count, the estimated tokens of every chunk
\* planned do not exceed the request limit.
C17_ChunkWithinBudget ==
    \A c \in DOMAIN sem.chunks :
        EstimatedTokens(sem.chunks[c]) <= API_MAX_TOKENS_REQUEST_LIMIT

C17_Witness ==
    /\ sem.pc = "chunks"
    /\ sem.n = 13
    /\ Len(sem.chunks) = 1
    /\ EstimatedTokens(sem.chunks[1]) = 3990

\* No thread is inside get or put
CacheQuiet == \A w \in WorkerIds : workers[w].pc \in {"idle", "done"}

\* C18: after any get or put, for any sequence of operations, the paragraph
\* cache holds no more than capacity entries.
C18_WithinCapacity ==
    CacheQuiet => Len(paragraph_cache.cache) <= paragraph_cache.capacity

\* The cache was full and the put of a third key has returned
C18_Witness ==
    /\ workers[1].pc = "done"
    /\ workers[1].key = 3
    /\ workers[1].popped # 0
    /\ paragraph_cache.capacity = 2
    /\ Len(paragraph_cache.cache) = 2
    /\ paragraph_cache.cache[2].key = 3

Position(order, key) == CHOOSE i \in DOMAIN order : order[i] = key

\* C19: whenever an entry leaves the paragraph cache, its most recent access
\* (get hit or put) is older than that of every entry that remains.
C19_EvictsLeastRecent ==
    [][\A gone \in CachedKeys(paragraph_cache.cache)
                     \ CachedKeys(paragraph_cache'.cache) :
          \A kept \in CachedKeys(paragraph_cache'.cache) :
              Position(recency, gone) < Position(recency, kept)]_vars

\* The put of key 3 has evicted key 2 and left key 1, the older of the two
\* by insertion being the more recently accessed
C19_Witness ==
    /\ workers[1].pc = "done"
    /\ workers[1].key = 3
    /\ workers[1].popped = 2
    /\ paragraph_cache.capacity = 2
    /\ paragraph_cache.cache = <<[key |-> 1, value |-> EmbeddingOf(1)],
                                 [key |-> 3, value |-> EmbeddingOf(3)]>>

\* C20: with several threads inside the paragraph cache, every interleaving
\* of the steps of get and put ends without an error, and with the cache
\* within its capacity once the threads are out.
C20_ConcurrentUseSafe ==
    /\ \A w \in WorkerIds : ~workers[w].error
    /\ CacheQuiet => Len(paragraph_cache.cache) <= paragraph_cache.capacity

(***************************************************************************)
(* Properties of the embedding service that failed to load                 *)
(***************************************************************************)
\* C21: with a service that is not ready, a full analysis and a
\* single-paragraph analysis return no relevance value for the text they
\* analysed, and still return the readability and the label
C21_NotReadyMeansNull ==
    /\ (reply.of = "analyze_full_text" /\ ~reply.ready)
       => \A i \in DOMAIN reply.df :
              /\ reply.df[i].signal_strength = Null
              /\ reply.df[i].readability # Null
              /\ reply.df[i].semantic_function # Null
    /\ (reply.of = "analyze_incremental" /\ ~reply.ready)
       => /\ reply.metrics.signal_strength = Null
          /\ reply.metrics.readability # Null
          /\ reply.metrics.semantic_function # Null

\* C22: once the first load of the process has failed, the model is not
\* loaded again, and the factory returns that first service
C22_NoSecondLoad ==
    embedding.failed_at_start
    => /\ embedding.loads = 1
       /\ reply.of = "get_embedding_service"
          => reply.service = NewService(1, FALSE)

(***************************************************************************)
(* Properties of the session store                                         *)
(***************************************************************************)
\* C23: get_analysis returns the table and the topic of the last save that
\* no delete followed, and "not found" when there is none, whichever back
\* end is in use and whatever Redis errors came in between
C23_ReadYourWrites ==
    reply.of = "get_analysis"
    => reply.result = IF kv.written.exists
                      THEN Found(kv.written)
                      ELSE NotFound

(***************************************************************************)
(* Properties of the response parsers                                      *)
(***************************************************************************)
\* The position of the first item of the response that is read as label
FirstAs(response, label) ==
    CHOOSE i \in DOMAIN response :
        /\ matched_label(response[i]) = label
        /\ \A j \in 1..(i - 1) : matched_label(response[j]) # label

C25_AtMostTwoDistinct ==
    reply.of = "_parse_gpt_response"
    => \A n \in DOMAIN reply.result :
           LET labels == reply.result[n].labels
           IN  /\ Len(labels) <= 2
               /\ \A i, j \in DOMAIN labels : i # j => labels[i] # labels[j]

(***************************************************************************)
(* Properties of the stream message handler                                *)
(***************************************************************************)
\* The next inbound event is a terminal response event carrying text
TextEventNext == stream.wire # <<>> /\ Head(stream.wire).type = "text"

\* The next inbound event is an error event
ErrorEventNext == stream.wire # <<>> /\ Head(stream.wire).type = "error"

\* A request is awaiting its response
Awaiting == stream.pc = "await" /\ stream.fut = "waiting"

\* C26: whenever a terminal response event carrying text is handled while a
\* request is awaiting its response, the handler resolves that request with
\* the parsed label, whatever happened on the connection before.
C26_TextResolvesAwaiting ==
    [][(StreamDeliver /\ TextEventNext /\ Awaiting) => stream'.fut = "result"]_vars

\* C27: a request's future is resolved only with the response generated for
\* that request; a late response or a second terminal event of an earlier
\* response never resolves a later request.
C27_NeverStaleAnswer ==
    /\ stream.fut = "result" => stream.answer = stream.req
    /\ \A i \in DOMAIN stream.results :
          stream.results[i].semantic_function = "label"
              => stream.results[i].answer = stream.results[i].req

\* C28: an error event rejects every pending future that is not yet done,
\* the awaiting request among them, with that error; no registered request
\* is left waiting after it.
C28_ErrorRejectsAll ==
    [][(StreamDeliver /\ ErrorEventNext) =>
          /\ \A i \in DOMAIN rt'.pending_requests : rt'.pending_requests[i].done
          /\ Len(rt'.pending_requests) = Len(rt.pending_requests)
          /\ Awaiting => /\ stream'.fut = "exception"
                         /\ stream'.answer = Head(stream.wire).for]_vars

\* An error event rejected the awaiting request together with the future of
\* another chunk, registered by a call whose send failed
C28_Witness ==
    /\ stream.pc = "await" /\ stream.fut = "exception"
    /\ \E i \in DOMAIN rt.pending_requests :
          /\ rt.pending_requests[i].chunk_id # stream.chunk_id
          /\ stream.owner[rt.pending_requests[i].chunk_id] \notin stream.sent
    /\ \A i \in DOMAIN rt.pending_requests : rt.pending_requests[i].done

\* The futures of pending_requests that are not done
NotDone(p) == {i \in DOMAIN p : ~p[i].done}

C30_EveryCallCompletes ==
    /\ \A r \in 1..MaxRequests :
          (stream.pc = "await" /\ stream.req = r) ~> (r \in stream.completed)
    /\ [][StreamTimeout =>
             /\ ~HasKey(rt'.pending_requests, stream.chunk_id)
             /\ stream'.results[Len(stream'.results)].semantic_function
                    = TimeoutSentinel]_vars

\* A request sent before the connection closed got no reply and timed out
C30_Witness ==
    /\ ~rt.conn_open
    /\ \E i \in DOMAIN stream.results :
          /\ stream.results[i].semantic_function = TimeoutSentinel
          /\ stream.results[i].req \in stream.sent
          /\ ~HasKey(rt.pending_requests, stream.results[i].chunk_id)

(***************************************************************************)
(* Properties of the hybrid analyzer: topic, fan-out, counters             *)
(***************************************************************************)
\* The topic of the call differs from the topic of the session in use
TopicChanged == call.pc = "ensure" /\ current_topic # call.topic

\* C31: a stream request goes over a connection whose session was configured
\* with the topic of the call; the call that changes the topic gets a newly
\* opened and configured connection with nothing pending, or sends no stream
\* request; the connection of the old topic is not used again.
C31_TopicOwnsConnection ==
    /\ [](call.pc \in {"send", "await"} /\ rt.websocket /\ rt.session_active
             => rt.topic = call.topic)
    /\ [](hyb_session_active => rt.exists /\ rt.topic = current_topic)
    /\ [][(EnsureSession /\ TopicChanged) =>
             \/ /\ call'.pc = "send"
                /\ rt' = ConnectedAnalyzer(call.topic)
                /\ current_topic' = call.topic
             \/ /\ call'.pc = "rest"
                /\ ~rt'.conn_open /\ ~hyb_session_active']_vars

\* The request of a call with the second topic is awaited on a connection
\* configured with it, after an earlier stream attempt was recorded
C31_Witness ==
    /\ call.pc = "await" /\ call.topic = "t2"
    /\ rt.topic = "t2" /\ current_topic = "t2"
    /\ failure_tracker.realtime_successes + failure_tracker.realtime_failures > 0

\* C32: with more than ten chunks and the stream in use, the head sent over
\* the stream is one quarter of the chunks, the first N div 4, and the rest
\* goes to the batch channel; with at most ten chunks every chunk is
\* processed one by one.
C32_HeadIsQuarter ==
    batch.pc # "idle" =>
        /\ batch.mode = "hybrid" =>
              /\ Len(batch.chunks) > AdaptiveMinChunks
              /\ batch.head = Len(batch.chunks) \div RealtimeHeadDivisor
        /\ Len(batch.chunks) <= AdaptiveMinChunks =>
              batch.mode = "sequential" /\ batch.head = Len(batch.chunks)

\* The row of the result for paragraph k of group c
GroupRowOf(c, k) == sem.result[sem.chunks[c][k] + 1]

\* C33: when the request of one group fails or returns no content, exactly
\* the paragraphs of that group are labelled error_api_call with an error
\* string; every paragraph of another group has the label of its own line,
\* or parsing_error when its line is missing; the result has one row per
\* input paragraph, in the input order.
C33_GroupFailureIsolated ==
    (sem.pc = "done" /\ reply # NoReply) =>
        /\ Len(sem.result) = sem.n
        /\ \A i \in DOMAIN sem.result : sem.result[i].index = i - 1
        /\ Len(reply.outcomes) = Len(sem.chunks)
        /\ \A c \in DOMAIN sem.chunks : \A k \in DOMAIN sem.chunks[c] :
              IF reply.outcomes[c].outcome # "ok"
              THEN /\ GroupRowOf(c, k).semantic_function = "error_api_call"
                   /\ GroupRowOf(c, k).semantic_error # Null
              ELSE IF reply.outcomes[c].missing = k
              THEN GroupRowOf(c, k).semantic_function = "parsing_error"
              ELSE /\ GroupRowOf(c, k).semantic_function = "label"
                   /\ GroupRowOf(c, k).label_of = sem.chunks[c][k]
                   /\ GroupRowOf(c, k).semantic_error = Null

\* Two groups: the request of the first failed, the response of the second
\* lacks the line of its first paragraph and labels the others
C33_Witness ==
    /\ sem.pc = "done" /\ reply # NoReply
    /\ Len(sem.chunks) = 2
    /\ reply.outcomes[1].outcome = "failed"
    /\ reply.outcomes[2] = [outcome |-> "ok", missing |-> 1]
    /\ sem.result[1].semantic_function = "error_api_call"
    /\ sem.result[Len(sem.chunks[1]) + 1].semantic_function = "parsing_error"
    /\ sem.result[sem.n].semantic_function = "label"

\* C34: a call that attempts the stream and does not return a stream result
\* records exactly one failure, also when the session cannot be established;
\* a call that returns a stream result records one success and no failure.
C34_EveryFailureCounted ==
    (call.pc = "done" /\ call.use_realtime) =>
        IF call.outcome = "returned" /\ call.result.api_method = "realtime"
        THEN call.successes_recorded = 1 /\ call.failures_recorded = 0
        ELSE call.failures_recorded = 1 /\ call.successes_recorded = 0

\* C35: should_use_realtime() returns false only when the last
\* failure_threshold recorded stream outcomes were all failures; a success
\* between failures restarts the count.
C35_CountsConsecutiveFailures ==
    ~should_use_realtime(failure_tracker, now).ret
        => consecutive_failures >= failure_threshold

\* C36: an analyzer built with prefer_realtime=False never opens the stream
\* connection and never sends a stream request in analyze_batch, whatever
\* the number of chunks and the adaptive_batching setting; every result is
\* tagged rest or failed.
C36_RestOnlyWhenNotPreferred ==
    ~prefer_realtime =>
        /\ ~rt.exists
        /\ ~call.use_realtime /\ ~call.stream_sent
        /\ \A i \in DOMAIN batch.results :
              batch.results[i].api_method \in {"rest", "failed"}

\* C37: get_statistics is read-only: it never changes realtime_failures,
\* realtime_successes or last_failure_time.
C37_StatisticsReadOnly ==
    [][GetStatistics => failure_tracker' = failure_tracker]_vars

(***************************************************************************)
(* Properties of the structural edits and of update_topic                  *)
(***************************************************************************)
\* new_order names every paragraph id of the table exactly once
IsPermutationOf(new_order, df) ==
    /\ Len(new_order) = Len(df)
    /\ \A i \in DOMAIN df : \E j \in DOMAIN new_order : new_order[j] = df[i].paragraph_id
    /\ \A j, h \in DOMAIN new_order : new_order[j] = new_order[h] => j = h

\* A reorder_paragraphs request of process 1 is made in this step
ReorderStep == procs[1].pc = "idle" /\ procs'[1].req.op = "reorder"

\* C38: reorder_paragraphs accepts new_order only when it is a permutation
\* of the current paragraph ids; an accepted reorder stores the same
\* paragraphs, each once, in the requested order; any other new_order leaves
\* the session unchanged.
C38_ReorderIsPermutation ==
    [][ReorderStep =>
          IF store.exists /\ IsPermutationOf(procs'[1].req.order, store.df)
          THEN /\ procs'[1].outcome = "saved"
               /\ Len(store'.df) = Len(store.df)
               /\ \A i \in DOMAIN store'.df :
                     store'.df[i].text = store.df[procs'[1].req.order[i] + 1].text
          ELSE /\ procs'[1].outcome # "saved"
               /\ store' = store]_vars

\* C39: in every stored state the relevance and the label of each paragraph
\* are null (or an error marker) or were computed for the stored topic.
C39_MetricsMatchStoredTopic ==
    store.exists =>
        \A i \in DOMAIN store.df : \A t \in Topics \ {store.topic} :
            /\ store.df[i].signal_strength # SignalFor(t)
            /\ store.df[i].semantic_function # LabelFor(t)

====
